---- MODULE Spec2Model ----
(***************************************************************************)
(* Model of the conversational shop assistant (amk-35/ai-assisted-online-  *)
(* shop): the per-connection Session store (session.py), the tool          *)
(* functions and their registry (functions.py), tool dispatch and the      *)
(* checkout helpers (chat.py) and the websocket connection handler with    *)
(* its agentic loop (main.py).                                             *)
(*                                                                         *)
(* Texts are sequences of characters (one-character strings); the labels   *)
(* "name:", "phone:" and "address:" are single units of a text.            *)
(*                                                                         *)
(* The cart is a mapping keyed by a product key.  session.py calls the key *)
(* product_id; functions.py passes the SKU as that key (by the keyword     *)
(* sku) and reads it back as item.sku.  The model binds the two: the key   *)
(* of a cart line is the SKU the tool function was called with.  The same   *)
(* holds for the order lines, which functions.py builds with product_sku.  *)
(*                                                                         *)
(* A turn is modelled from the head of the agentic loop: the rendering of  *)
(* the system prompt (Session._build_system_prompt, which imports          *)
(* get_vocabulary from functions.py) is taken to succeed, and the system   *)
(* message is carried by what is rendered into it.                         *)
(*                                                                         *)
(* Specifications: CartSpec (the cart tools, one dispatched call a step),  *)
(* Spec (the connection handler) and LiveSpec (Spec with a fair gateway    *)
(* step), HistorySpec (the handler over longer conversations with fewer    *)
(* kinds of input), OrderSpec (one customer placing orders while the admin *)
(* edits a product and updates order statuses), LastUnitSpec (two          *)
(* customers and one unit in stock), DispatchSpec (the agentic loop over   *)
(* failing tool calls), ReferenceSpec (resolve_reference), SearchSpec (the *)
(* paginated search), PairSpec (two connections side by side) and          *)
(* MessageSpec (the messages array of a turn).                             *)
(***************************************************************************)
EXTENDS Integers, Sequences, FiniteSets, TLC

VARIABLES
    db,          \* the data store: products and orders tables
    _sessions,   \* session.py: registry, connection id -> Session
    conn,        \* per connection: the locals of websocket_chat and of the turn
    last_op      \* the operation performed by the last step, with its result

vars == <<db, _sessions, conn, last_op>>

-----------------------------------------------------------------------------
(* Bounds of the model *)

MaxStock == 2
MaxLineQuantity == 3
MaxTurns == 2
MaxSends == 1
MaxHistoryTurns == 6

(* Program constants *)

max_iterations == 20
chunk_size == 150
history_limit == 10
summarize_count == 5
summary_prefix == 100

SKUs == {"A", "B"}
AdminSKUs == {"A"}
ProductVersions == {[name |-> "n1", price |-> 1], [name |-> "n2", price |-> 2]}
Stocks == 0..MaxStock
QuantityArgs == (0 - 1)..(MaxStock + 1)

-----------------------------------------------------------------------------
(* Generic helpers *)

Has(r, k) == k \in DOMAIN r

Without(f, k) == [x \in DOMAIN f \ {k} |-> f[x]]

RECURSIVE SumOver(_, _)
SumOver(f, S) ==
    IF S = {} THEN 0
    ELSE LET k == CHOOSE x \in S : TRUE
         IN f[k] + SumOver(f, S \ {k})

-----------------------------------------------------------------------------
(* session.py: Session, cart operations *)

EmptyCart == [k \in {} |-> 0]

\* Python's None, and a str t where None can stand as well
None == [none |-> TRUE]

Str(t) == [str |-> t]

IsSpace(u) == u \in {" "}

UpperCase ==
    <<"A", "B", "C", "D", "E", "F", "G", "H", "I", "J", "K", "L", "M",
      "N", "O", "P", "Q", "R", "S", "T", "U", "V", "W", "X", "Y", "Z">>

LowerCase ==
    <<"a", "b", "c", "d", "e", "f", "g", "h", "i", "j", "k", "l", "m",
      "n", "o", "p", "q", "r", "s", "t", "u", "v", "w", "x", "y", "z">>

\* str.lower(), unit by unit: the label units and the letters
lower(u) ==
    CASE u = "Name:" -> "name:"
      [] u = "Phone:" -> "phone:"
      [] u = "Address:" -> "address:"
      [] \E i \in 1..Len(UpperCase) : UpperCase[i] = u ->
             LowerCase[CHOOSE i \in 1..Len(UpperCase) : UpperCase[i] = u]
      [] OTHER -> u

\* str.lower() of a whole text
lower_str(t) == [k \in 1..Len(t) |-> lower(t[k])]

\* UserProfile()
UserProfile == [skin_type |-> None, concerns |-> <<>>]

Session ==
    [cart |-> EmptyCart,
     last_shown_products |-> <<>>,
     user_profile |-> UserProfile,
     awaiting_checkout |-> FALSE,
     conversation_history |-> <<>>,
     conversation_summary |-> <<>>,
     search_context |-> None]

CartItem(product_id, quantity, name, price) ==
    [product_id |-> product_id, quantity |-> quantity, name |-> name, price |-> price]

\* A variant that overwrites the cached name and price on every add.
add_to_cart_resnapshot(self, product_id, quantity, name, price) ==
    IF product_id \in DOMAIN self.cart
    THEN [self EXCEPT !.cart[product_id] =
              CartItem(product_id, @.quantity + quantity, name, price)]
    ELSE [self EXCEPT !.cart = @ @@ (product_id :> CartItem(product_id, quantity, name, price))]

add_to_cart(self, product_id, quantity, name, price) ==
    IF product_id \in DOMAIN self.cart
    THEN [self EXCEPT !.cart[product_id].quantity = @ + quantity]
    ELSE [self EXCEPT !.cart = @ @@ (product_id :> CartItem(product_id, quantity, name, price))]

remove_from_cart(self, product_id) ==
    IF product_id \in DOMAIN self.cart
    THEN [self EXCEPT !.cart = Without(@, product_id)]
    ELSE self

update_cart_item(self, product_id, quantity) ==
    IF quantity = 0 THEN remove_from_cart(self, product_id)
    ELSE IF product_id \in DOMAIN self.cart
         THEN [self EXCEPT !.cart[product_id].quantity = quantity]
         ELSE self

get_cart_items(self) == self.cart

clear_cart(self) == [self EXCEPT !.cart = EmptyCart]

\* A variant that adds up unit prices and ignores the quantities.
get_cart_total_unit_prices(self) ==
    SumOver([k \in DOMAIN self.cart |-> self.cart[k].price], DOMAIN self.cart)

get_cart_total(self) ==
    SumOver([k \in DOMAIN self.cart |-> self.cart[k].price * self.cart[k].quantity],
            DOMAIN self.cart)

-----------------------------------------------------------------------------
(* The products table, read through db.query(Product).filter(Product.sku == sku) *)

\* lines 173-179: the concerns are appended in lower case, each once
RECURSIVE append_concerns(_, _)
append_concerns(existing, concerns) ==
    IF Len(concerns) = 0 THEN existing
    ELSE LET concern == lower_str(Head(concerns))
         IN append_concerns(IF \E i \in 1..Len(existing) : existing[i] = concern
                            THEN existing ELSE Append(existing, concern),
                            Tail(concerns))

\* update_profile: skin_type is None or Str(t); concerns is a list, the empty one
\* standing for None as well
update_profile(session, skin_type, concerns) ==
    LET typed == IF skin_type # None /\ Len(skin_type.str) > 0
                 THEN [session EXCEPT !.user_profile.skin_type = skin_type]
                 ELSE session
    IN [typed EXCEPT !.user_profile.concerns = append_concerns(@, concerns)]

NoProducts == [k \in {} |-> 0]

Product(name, price, stock) == [name |-> name, price |-> price, stock |-> stock]

ProductExists(database, sku) == sku \in DOMAIN database.products

-----------------------------------------------------------------------------
(* functions.py: the cart and order tools.  Each takes the session and the  *)
(* data store and returns the session after the call and the result dict.   *)

Return(session, result) == [session |-> session, result |-> result]

getCartState(session, database) ==
    LET items == get_cart_items(session)
    IN IF DOMAIN items = {}
       THEN Return(session, [empty |-> TRUE])
       ELSE Return(session,
                   [empty |-> FALSE,
                    itemCount |-> Cardinality(DOMAIN items),
                    total |-> get_cart_total(session)])

addToCart(session, database, sku, quantity) ==
    IF ~ProductExists(database, sku)
    THEN Return(session, [success |-> FALSE, message |-> "not found"])
    ELSE LET product == database.products[sku]
         IN IF product.stock < quantity
            THEN Return(session, [success |-> FALSE, message |-> "only stock available"])
            ELSE LET after == add_to_cart(session, sku, quantity, product.name, product.price)
                 IN Return(after,
                           [success |-> TRUE,
                            cartItemCount |-> Cardinality(DOMAIN get_cart_items(after)),
                            cartTotal |-> get_cart_total(after)])

removeFromCart(session, database, sku) ==
    IF sku \notin DOMAIN session.cart
    THEN Return(session, [success |-> FALSE, message |-> "not in cart"])
    ELSE LET after == remove_from_cart(session, sku)
         IN Return(after,
                   [success |-> TRUE,
                    cartItemCount |-> Cardinality(DOMAIN get_cart_items(after)),
                    cartTotal |-> get_cart_total(after)])

\* A variant without the stock check.
updateCartItem_unchecked(session, database, sku, quantity) ==
    IF sku \notin DOMAIN session.cart
    THEN Return(session, [success |-> FALSE, message |-> "not in cart"])
    ELSE IF quantity = 0
    THEN removeFromCart(session, database, sku)
    ELSE LET after == update_cart_item(session, sku, quantity)
         IN Return(after,
                   [success |-> TRUE,
                    cartItemCount |-> Cardinality(DOMAIN get_cart_items(after)),
                    cartTotal |-> get_cart_total(after)])

updateCartItem(session, database, sku, quantity) ==
    IF sku \notin DOMAIN session.cart
    THEN Return(session, [success |-> FALSE, message |-> "not in cart"])
    ELSE IF quantity = 0
    THEN removeFromCart(session, database, sku)
    ELSE IF ProductExists(database, sku) /\ database.products[sku].stock < quantity
    THEN Return(session, [success |-> FALSE, message |-> "only stock available"])
    ELSE LET after == update_cart_item(session, sku, quantity)
         IN Return(after,
                   [success |-> TRUE,
                    cartItemCount |-> Cardinality(DOMAIN get_cart_items(after)),
                    cartTotal |-> get_cart_total(after)])

\* A variant that signals the checkout whatever the cart holds.
initiateOrder_unconditional(session, database) ==
    LET items == get_cart_items(session)
    IN Return(session,
              [type |-> "initiate_checkout",
               cartSummary |-> [itemCount |-> Cardinality(DOMAIN items),
                                total |-> get_cart_total(session),
                                items |-> [k \in DOMAIN items |->
                                              [name |-> items[k].name,
                                               quantity |-> items[k].quantity,
                                               price |-> items[k].price]]]])

initiateOrder(session, database) ==
    LET items == get_cart_items(session)
    IN IF DOMAIN items = {}
       THEN Return(session, [success |-> FALSE, message |-> "cart is empty"])
       ELSE Return(session,
                   [type |-> "initiate_checkout",
                    cartSummary |-> [itemCount |-> Cardinality(DOMAIN items),
                                     total |-> get_cart_total(session),
                                     items |-> [k \in DOMAIN items |->
                                                   [name |-> items[k].name,
                                                    quantity |-> items[k].quantity,
                                                    price |-> items[k].price]]]])

\* lines 428-473.  SKIN_TYPES is not defined in functions.py: with a skinType
\* line 444 raises NameError, which execute_tool_call answers with an error result
updateUserProfile(session, database, tool_params) ==
    IF Has(tool_params, "skinType") /\ Len(tool_params.skinType) > 0
    THEN Return(session, [error |-> "Function failed"])
    ELSE IF Has(tool_params, "concerns") /\ Len(tool_params.concerns) > 0
    THEN LET updated == update_profile(session, None, tool_params.concerns)
         IN Return(updated,
                   [success |-> TRUE,
                    currentProfile |-> [skinType |-> updated.user_profile.skin_type,
                                        concerns |-> updated.user_profile.concerns]])
    ELSE Return(session, [success |-> FALSE, message |-> "No profile updates provided."])

-----------------------------------------------------------------------------
(* functions.py: FUNCTION_REGISTRY (the entries modelled here) and           *)
(* chat.py: execute_tool_call.  A tool call is [name, params]; params is the *)
(* record decoded from the call's JSON arguments and is bound to the         *)
(* function's keyword parameters, which raises when a required parameter is  *)
(* missing or an unexpected one is given.                                    *)

FUNCTION_REGISTRY ==
    {"updateUserProfile", "getCartState", "addToCart", "removeFromCart", "updateCartItem",
     "initiateOrder"}

Required(tool_name) ==
    CASE tool_name = "addToCart" -> {"sku"}
      [] tool_name = "removeFromCart" -> {"sku"}
      [] tool_name = "updateCartItem" -> {"sku", "quantity"}
      [] OTHER -> {}

Accepted(tool_name) ==
    CASE tool_name = "addToCart" -> {"sku", "quantity"}
      [] tool_name = "removeFromCart" -> {"sku"}
      [] tool_name = "updateCartItem" -> {"sku", "quantity"}
      [] tool_name = "updateUserProfile" -> {"skinType", "concerns"}
      [] OTHER -> {}

Binds(tool_name, tool_params) ==
    /\ Required(tool_name) \subseteq DOMAIN tool_params
    /\ DOMAIN tool_params \subseteq Accepted(tool_name)

CallFunction(tool_name, tool_params, session, database) ==
    CASE tool_name = "getCartState" -> getCartState(session, database)
      [] tool_name = "addToCart" ->
             addToCart(session, database, tool_params.sku,
                       IF Has(tool_params, "quantity") THEN tool_params.quantity ELSE 1)
      [] tool_name = "removeFromCart" -> removeFromCart(session, database, tool_params.sku)
      [] tool_name = "updateCartItem" ->
             updateCartItem(session, database, tool_params.sku, tool_params.quantity)
      [] tool_name = "initiateOrder" -> initiateOrder(session, database)
      [] tool_name = "updateUserProfile" -> updateUserProfile(session, database, tool_params)

\* A variant whose answer to an unknown tool name carries no "error" field.
execute_tool_call_unknown_unmarked(tool_name, tool_params, session, database) ==
    IF tool_name \notin FUNCTION_REGISTRY
    THEN Return(session, [success |-> FALSE, message |-> "Unknown function"])
    ELSE IF ~Binds(tool_name, tool_params)
    THEN Return(session, [error |-> "Function failed"])
    ELSE CallFunction(tool_name, tool_params, session, database)

execute_tool_call(tool_name, tool_params, session, database) ==
    IF tool_name \notin FUNCTION_REGISTRY
    THEN Return(session, [error |-> "Unknown function"])
    ELSE IF ~Binds(tool_name, tool_params)
    THEN Return(session, [error |-> "Function failed"])
    ELSE CallFunction(tool_name, tool_params, session, database)

-----------------------------------------------------------------------------
(* main.py: the admin endpoints that write the products table *)

create_product(database, sku, name, price, stock) ==
    [database EXCEPT !.products = @ @@ (sku :> Product(name, price, stock))]

update_product(database, sku, name, price, stock) ==
    IF ~ProductExists(database, sku) THEN database
    ELSE [database EXCEPT !.products[sku] = Product(name, price, stock)]

delete_product(database, sku) ==
    IF ProductExists(database, sku)
    THEN [database EXCEPT !.products = Without(@, sku)]
    ELSE database

-----------------------------------------------------------------------------
(* State after start-up: both products on sale, no order, and (for the      *)
(* tool-level specification) one connected session.                         *)

Conns == {"c1"}

InitialProducts == [k \in SKUs |-> Product("n1", 1, MaxStock)]

InitialDb == [products |-> InitialProducts, orders |-> <<>>]

Locals(pc) == [pc |-> pc]

Op(c, name, params, result) ==
    [conn |-> c, name |-> name, params |-> params, result |-> result]

NoParams == [k \in {} |-> 0]

(* Tool calls a model reply may carry *)
CartToolCalls ==
    {[name |-> "addToCart", params |-> [sku |-> s, quantity |-> q]] :
         s \in SKUs, q \in QuantityArgs}
    \cup {[name |-> "addToCart", params |-> [sku |-> s]] : s \in SKUs}
    \cup {[name |-> "removeFromCart", params |-> [sku |-> s]] : s \in SKUs}
    \cup {[name |-> "updateCartItem", params |-> [sku |-> s, quantity |-> q]] :
         s \in SKUs, q \in QuantityArgs}
    \cup {[name |-> "getCartState", params |-> NoParams],
          [name |-> "initiateOrder", params |-> NoParams],
          [name |-> "searchProducts", params |-> NoParams],
          [name |-> "updateCartItem", params |-> [sku |-> "A"]]}

LineQuantitiesBounded(session) ==
    \A k \in DOMAIN session.cart :
        session.cart[k].quantity \in (0 - 1)..MaxLineQuantity

-----------------------------------------------------------------------------
(* Steps of the tool-level specification: one dispatched tool call, or one  *)
(* admin write to the products table.                                       *)

ToolCall(c, call) ==
    LET r == execute_tool_call(call.name, call.params, _sessions[c], db)
    IN /\ c \in DOMAIN _sessions
       /\ LineQuantitiesBounded(r.session)
       /\ _sessions' = [_sessions EXCEPT ![c] = r.session]
       /\ last_op' = Op(c, call.name, call.params, r.result)
       /\ UNCHANGED <<db, conn>>

AdminCreate(sku, v, stock) ==
    /\ ~ProductExists(db, sku)
    /\ db' = create_product(db, sku, v.name, v.price, stock)
    /\ last_op' = Op("admin", "create_product", [sku |-> sku], NoParams)
    /\ UNCHANGED <<_sessions, conn>>

AdminUpdate(sku, v, stock) ==
    /\ ProductExists(db, sku)
    /\ db' = update_product(db, sku, v.name, v.price, stock)
    /\ last_op' = Op("admin", "update_product", [sku |-> sku], NoParams)
    /\ UNCHANGED <<_sessions, conn>>

AdminDelete(sku) ==
    /\ ProductExists(db, sku)
    /\ db' = delete_product(db, sku)
    /\ last_op' = Op("admin", "delete_product", [sku |-> sku], NoParams)
    /\ UNCHANGED <<_sessions, conn>>

InitCart ==
    /\ db = InitialDb
    /\ _sessions = [c \in Conns |-> Session]
    /\ conn = [c \in Conns |-> Locals("receive")]
    /\ last_op = Op("c1", "create_session", NoParams, NoParams)

NextCart ==
    \/ \E c \in Conns, call \in CartToolCalls : ToolCall(c, call)
    \/ \E sku \in AdminSKUs, v \in ProductVersions, stock \in Stocks : AdminCreate(sku, v, stock)
    \/ \E sku \in AdminSKUs, v \in ProductVersions, stock \in Stocks : AdminUpdate(sku, v, stock)
    \/ \E sku \in AdminSKUs : AdminDelete(sku)

CartSpec == InitCart /\ [][NextCart]_vars

-----------------------------------------------------------------------------
(* Properties of the cart tools (checked under CartSpec) *)

\* The tool call made by the step just taken, if it was one
IsToolCall(op, names) == op.name \in names /\ op.conn \in Conns

RequestedQuantity(op) == IF Has(op.params, "quantity") THEN op.params.quantity ELSE 1

CartOf(registry, c) == registry[c].cart

C6_OverStockRejected ==
    [][LET op == last_op'
           c == op.conn
           sku == op.params.sku
       IN (/\ IsToolCall(op, {"addToCart", "updateCartItem"})
           /\ Binds(op.name, op.params)
           /\ ProductExists(db, sku)
           /\ RequestedQuantity(op) > db.products[sku].stock)
          => /\ Has(op.result, "success") /\ op.result.success = FALSE
             /\ CartOf(_sessions', c) = CartOf(_sessions, c)
      ]_vars

\* C6 witness: updateCartItem on a line that is in the cart, refused for stock.
C6_Witness ==
    /\ IsToolCall(last_op, {"updateCartItem"})
    /\ Binds(last_op.name, last_op.params)
    /\ last_op.params.sku \in DOMAIN CartOf(_sessions, last_op.conn)
    /\ Has(last_op.result, "message") /\ last_op.result.message = "only stock available"

\* C7: after any sequence of cart operations every line present in the cart has
\* quantity >= 1.
C7_LinesAtLeastOne ==
    \A c \in DOMAIN _sessions : \A k \in DOMAIN CartOf(_sessions, c) :
        CartOf(_sessions, c)[k].quantity >= 1

\* C8: get_cart_total() equals the sum of price * quantity over exactly the lines
\* currently in the cart, recomputed line by line over the SKU universe.
LineValue(cart, k) == IF k \in DOMAIN cart THEN cart[k].price * cart[k].quantity ELSE 0

RECURSIVE IndependentTotal(_, _)
IndependentTotal(cart, keys) ==
    IF keys = {} THEN 0
    ELSE LET k == CHOOSE x \in keys : TRUE
         IN IndependentTotal(cart, keys \ {k}) + LineValue(cart, k)

C8_CartTotal ==
    \A c \in DOMAIN _sessions :
        /\ get_cart_total(_sessions[c]) = IndependentTotal(CartOf(_sessions, c), SKUs)
        /\ (last_op.conn = c /\ Has(last_op.result, "cartTotal"))
               => last_op.result.cartTotal = IndependentTotal(CartOf(_sessions, c), SKUs)

\* C8 witness: a line was removed while another line stays, and the total returned
\* counts the remaining line only.
C8_Witness ==
    /\ IsToolCall(last_op, {"removeFromCart"})
    /\ Has(last_op.result, "cartTotal")
    /\ last_op.result.cartTotal >= 2
    /\ Cardinality(DOMAIN CartOf(_sessions, last_op.conn)) = 1

-----------------------------------------------------------------------------
(* Python text values.  A str is a sequence of units; where a value may     *)
(* also be None (the content of a history entry) a str t is carried as      *)
(* Str(t).                                                                   *)

AllSpaces(t, lo, hi) == \A k \in lo..hi : IsSpace(t[k])

MaxOf(S) == CHOOSE x \in S : \A y \in S : y <= x

MinOf(S) == CHOOSE x \in S : \A y \in S : x <= y

\* str.strip()
strip(t) ==
    LET solid == {k \in 1..Len(t) : ~IsSpace(t[k])}
    IN IF solid = {} THEN <<>> ELSE SubSeq(t, MinOf(solid), MaxOf(solid))

\* str.split(sep) for a one-unit separator
RECURSIVE split(_, _)
split(t, sep) ==
    LET at == {k \in 1..Len(t) : t[k] = sep}
    IN IF at = {} THEN <<t>>
       ELSE <<SubSeq(t, 1, MinOf(at) - 1)>> \o split(SubSeq(t, MinOf(at) + 1, Len(t)), sep)

\* sep.join(parts)
RECURSIVE join(_, _)
join(sep, parts) ==
    IF Len(parts) = 0 THEN <<>>
    ELSE IF Len(parts) = 1 THEN parts[1]
    ELSE parts[1] \o sep \o join(sep, Tail(parts))

-----------------------------------------------------------------------------
(* chat.py: parse_customer_info.  pattern1 is                                *)
(*     name:\s*(.+?),\s*phone:\s*(.+?),\s*address:\s*(.+)                    *)
(* searched case-insensitively.  The match found is the first one in the     *)
(* order the regex engine tries them: leftmost start, \s* greedy (longest    *)
(* first), .+? lazy (shortest first), the last group greedy.  Texts hold no  *)
(* line break, so "." matches every unit.                                    *)

\* the places where \s* can stop after the unit at position p
AfterSpaces(t, p) == {q \in (p + 1)..(Len(t) + 1) : AllSpaces(t, p + 1, q - 1)}

\* position of the label that follows the comma at position p, if it does
LabelAfterComma(t, p, label) ==
    {q \in AfterSpaces(t, p) : q <= Len(t) /\ lower(t[q]) = label}

\* address:\s*(.+) from the label at position f
Group3Starts(t, f) == {g \in AfterSpaces(t, f) : g <= Len(t)}

\* (.+?),\s*address:\s*(.+) with the second group starting at d
Group2Ends(t, d) ==
    {e \in d..(Len(t) - 1) :
        /\ t[e + 1] = ","
        /\ \E f \in LabelAfterComma(t, e + 1, "address:") : Group3Starts(t, f) # {}}

\* phone:\s*(.+?),... from the label at position c
Group2Starts(t, c) == {d \in AfterSpaces(t, c) : d <= Len(t) /\ Group2Ends(t, d) # {}}

\* (.+?),\s*phone:... with the first group starting at a
Group1Ends(t, a) ==
    {b \in a..(Len(t) - 1) :
        /\ t[b + 1] = ","
        /\ \E c \in LabelAfterComma(t, b + 1, "phone:") : Group2Starts(t, c) # {}}

\* name:\s*(.+?),... from the label at position i
Group1Starts(t, i) == {a \in AfterSpaces(t, i) : a <= Len(t) /\ Group1Ends(t, a) # {}}

MatchStarts(t) == {i \in 1..Len(t) : lower(t[i]) = "name:" /\ Group1Starts(t, i) # {}}

pattern1_search(t) ==
    IF MatchStarts(t) = {} THEN None
    ELSE LET i == MinOf(MatchStarts(t))
             a == MaxOf(Group1Starts(t, i))
             b == MinOf(Group1Ends(t, a))
             c == CHOOSE q \in LabelAfterComma(t, b + 1, "phone:") : TRUE
             d == MaxOf(Group2Starts(t, c))
             e == MinOf(Group2Ends(t, d))
             f == CHOOSE q \in LabelAfterComma(t, e + 1, "address:") : TRUE
             g == MaxOf(Group3Starts(t, f))
         IN [group1 |-> SubSeq(t, a, b),
             group2 |-> SubSeq(t, d, e),
             group3 |-> SubSeq(t, g, Len(t))]

parse_customer_info(message) ==
    LET match == pattern1_search(message)
        parts == [k \in 1..Len(split(message, ",")) |-> strip(split(message, ",")[k])]
    IN IF match # None
       THEN [name |-> strip(match.group1),
             phone |-> strip(match.group2),
             address |-> strip(match.group3)]
       ELSE IF Len(parts) >= 3
       THEN [name |-> parts[1],
             phone |-> parts[2],
             address |-> join(<<",", " ">>, SubSeq(parts, 3, Len(parts)))]
       ELSE None

-----------------------------------------------------------------------------
(* session.py: conversation history.  conversation_summary is the sequence  *)
(* of "[Earlier conversation]" blocks, each a sequence of summary lines.     *)

Min(a, b) == IF a <= b THEN a ELSE b

Raised(session) == [session |-> session, raised |-> TRUE]

Done(session) == [session |-> session, raised |-> FALSE]

SummaryLine(msg) ==
    [role |-> IF msg.role = "user" THEN "User" ELSE "Assistant",
     text |-> SubSeq(msg.content.str, 1, Min(summary_prefix, Len(msg.content.str)))]

\* msg['content'][:100] raises TypeError when the content is None
_summarize_old_messages(self) ==
    LET history == self.conversation_history
        messages_to_summarize == SubSeq(history, 1, Min(summarize_count, Len(history)))
        summary_parts == [k \in 1..Len(messages_to_summarize) |->
                             SummaryLine(messages_to_summarize[k])]
    IN IF \E k \in 1..Len(messages_to_summarize) : messages_to_summarize[k].content = None
       THEN Raised(self)
       ELSE Done([self EXCEPT
                    !.conversation_summary = Append(@, summary_parts),
                    !.conversation_history =
                        SubSeq(history, Min(summarize_count, Len(history)) + 1, Len(history))])

add_to_history(self, role, content) ==
    LET appended == [self EXCEPT !.conversation_history =
                                     Append(@, [role |-> role, content |-> content])]
    IN IF Len(appended.conversation_history) > history_limit
       THEN _summarize_old_messages(appended)
       ELSE Done(appended)

-----------------------------------------------------------------------------
(* functions.py: finalizeOrder.  The order id is a fresh key.                *)

Order(id, customer_name, phone, address, items) ==
    [id |-> id, customer_name |-> customer_name, phone |-> phone, address |-> address,
     status |-> "pending", items |-> items]

OrderItem(product_sku, quantity, price) ==
    [product_sku |-> product_sku, quantity |-> quantity, price |-> price]

\* A variant that reads the unit price of an order line from the catalog.
finalizeOrder_catalog_price(session, database, customer_name, phone, address) ==
    LET items == get_cart_items(session)
        id == Len(database.orders) + 1
        order == Order(id, customer_name, phone, address,
                       [k \in DOMAIN items |->
                           OrderItem(k, items[k].quantity,
                                     IF ProductExists(database, k)
                                     THEN database.products[k].price
                                     ELSE items[k].price)])
    IN IF DOMAIN items = {}
       THEN [session |-> session, database |-> database,
             result |-> [success |-> FALSE, message |-> "Cart is empty"]]
       ELSE [session |-> clear_cart(session),
             database |-> [database EXCEPT !.orders = Append(@, order)],
             result |-> [success |-> TRUE,
                         orderId |-> id,
                         orderSummary |-> [orderId |-> id,
                                           customerName |-> customer_name,
                                           itemCount |-> Cardinality(DOMAIN items),
                                           total |-> get_cart_total(session),
                                           status |-> "pending"]]]

finalizeOrder(session, database, customer_name, phone, address) ==
    LET items == get_cart_items(session)
        id == Len(database.orders) + 1
        order == Order(id, customer_name, phone, address,
                       [k \in DOMAIN items |-> OrderItem(k, items[k].quantity, items[k].price)])
    IN IF DOMAIN items = {}
       THEN [session |-> session, database |-> database,
             result |-> [success |-> FALSE, message |-> "Cart is empty"]]
       ELSE [session |-> clear_cart(session),
             database |-> [database EXCEPT !.orders = Append(@, order)],
             result |-> [success |-> TRUE,
                         orderId |-> id,
                         orderSummary |-> [orderId |-> id,
                                           customerName |-> customer_name,
                                           itemCount |-> Cardinality(DOMAIN items),
                                           total |-> get_cart_total(session),
                                           status |-> "pending"]]]

-----------------------------------------------------------------------------
(* The websocket, and the state a handler carries through one step.  alive  *)
(* is the number of sends that still reach the client; a send after that    *)
(* raises.  Every statement is skipped once an exception is in flight.       *)

\* alive: the client stays for the whole step
StaysOpen == MaxSends + 1

Alive == 0..MaxSends \cup {StaysOpen}

TextFrame(text) == [kind |-> "text", text |-> text]

JsonFrame(content) == [kind |-> "json", json |-> [type |-> "message", content |-> content]]

\* The fixed texts of the program, each carried as one unit and written by its
\* opening words.
end_signal == <<"__END__">>
took_too_long_text == <<"Processing took too long. Please try again.">>
api_error_text == <<"Error: API returned ...">>
message_error_text == <<"Error processing message: ...">>
checkout_error_text == <<"Error processing checkout. Please try again.">>
response_text == <<"Invalid format. Please check: ...">>
starting_checkout_text == <<"Starting checkout process...">>

Frame(session, database, alive) ==
    [session |-> session, database |-> database, alive |-> alive, sent |-> <<>>,
     raised |-> FALSE, broken |-> FALSE, dispatched |-> <<>>, outcome |-> "none",
     messages |-> <<>>]

send(F, frame) ==
    IF F.raised THEN F
    ELSE IF F.alive = 0 THEN [F EXCEPT !.raised = TRUE, !.broken = TRUE]
    ELSE [F EXCEPT !.alive = IF @ = StaysOpen THEN @ ELSE @ - 1, !.sent = Append(@, frame)]

send_text(F, text) == send(F, TextFrame(text))

send_json(F, content) == send(F, JsonFrame(content))

history(F, role, content) ==
    IF F.raised THEN F
    ELSE LET r == add_to_history(F.session, role, content)
         IN [F EXCEPT !.session = r.session, !.raised = r.raised]

Outcome(F, outcome) == IF F.raised THEN F ELSE [F EXCEPT !.outcome = outcome]

-----------------------------------------------------------------------------
(* chat.py: handle_checkout_flow and complete_checkout *)

handle_checkout_flow(F, cart_summary) ==
    LET shown == send_json(F, [text |-> "Great! Here's what you're ordering",
                               cartSummary |-> cart_summary.cartSummary])
    IN IF shown.raised THEN shown
       ELSE [shown EXCEPT !.session.awaiting_checkout = TRUE]

\* A variant that leaves the checkout flag as it was.
complete_checkout_keeps_flag(F, customer_info) ==
    LET r == finalizeOrder(F.session, F.database,
                           customer_info.name, customer_info.phone, customer_info.address)
        confirmation ==
            IF r.result.success
            THEN [text |-> "Order Confirmed!",
                  orderId |-> r.result.orderId,
                  customer |-> customer_info,
                  total |-> r.result.orderSummary.total,
                  status |-> r.result.orderSummary.status]
            ELSE [text |-> "Order failed", message |-> r.result.message]
        finalized == [F EXCEPT !.session = r.session, !.database = r.database]
    IN send_json(finalized, confirmation)

\* returns None
complete_checkout(F, customer_info) ==
    LET r == finalizeOrder(F.session, F.database,
                           customer_info.name, customer_info.phone, customer_info.address)
        confirmation ==
            IF r.result.success
            THEN [text |-> "Order Confirmed!",
                  orderId |-> r.result.orderId,
                  customer |-> customer_info,
                  total |-> r.result.orderSummary.total,
                  status |-> r.result.orderSummary.status]
            ELSE [text |-> "Order failed", message |-> r.result.message]
        finalized == [F EXCEPT !.session = r.session, !.database = r.database]
        confirmed == send_json(finalized, confirmation)
    IN IF confirmed.raised THEN confirmed
       ELSE [confirmed EXCEPT !.session.awaiting_checkout = FALSE]

-----------------------------------------------------------------------------
(* main.py: websocket_chat, the checkout branch (lines 142-176) *)

in_checkout_flow_never(session) == FALSE

in_checkout_flow(session) == session.awaiting_checkout

\* the except clause of the checkout branch; a failure in it leaves the loop
checkout_except(F) ==
    IF ~F.raised THEN F
    ELSE LET told == send_text(send_text([F EXCEPT !.raised = FALSE], checkout_error_text),
                               end_signal)
         IN IF told.raised THEN told ELSE [told EXCEPT !.outcome = "checkout_error"]

checkout_branch(F, user_message) ==
    LET customer_info == parse_customer_info(user_message)
        responded_text == None
    IN IF customer_info # None
       THEN checkout_except(
                Outcome(history(history(send_text(complete_checkout(F, customer_info),
                                                  end_signal),
                                        "user", Str(user_message)),
                                "assistant", responded_text),
                        "checkout_completed"))
       ELSE checkout_except(
                Outcome(history(history(send_text(send_text(F, response_text), end_signal),
                                        "user", Str(user_message)),
                                "assistant", Str(response_text)),
                        "checkout_reprompt"))

-----------------------------------------------------------------------------
(* main.py: handle_message_with_streaming.  A reply of the Model Gateway is  *)
(* [status_code, content, tool_calls]; a tool call is [id, name, arguments], *)
(* the arguments being a JSON text.                                          *)

dumps(value) == [wellformed |-> TRUE, value |-> value]

malformed_json == [wellformed |-> FALSE, value |-> NoParams]

\* json.loads: raises on a text that is not JSON
loads(text) ==
    IF text.wellformed THEN [raised |-> FALSE, value |-> text.value]
    ELSE [raised |-> TRUE, value |-> NoParams]

\* line 279: the message of the reply, as it is appended to messages
assistant_message(reply) ==
    [role |-> "assistant", content |-> reply.content, tool_calls |-> reply.tool_calls]

\* A variant whose tool message does not say which call it answers.
tool_message_without_id(tool_call, result) ==
    [role |-> "tool", name |-> tool_call.name, content |-> dumps(result), tool_call_id |-> 0]

\* lines 338-343
tool_message(tool_call, result) ==
    [role |-> "tool", name |-> tool_call.name, content |-> dumps(result),
     tool_call_id |-> tool_call.id]

Dispatched(tool_call, func_params, result) ==
    [id |-> tool_call.id, name |-> tool_call.name, params |-> func_params, result |-> result]

IsCheckoutSignal(result) == Has(result, "type") /\ result.type = "initiate_checkout"

\* A variant that keeps dispatching the rest of the batch after the signal.
RECURSIVE execute_tool_calls_no_preempt(_, _, _, _)
execute_tool_calls_no_preempt(F, tool_calls, k, user_message) ==
    IF k > Len(tool_calls) \/ F.raised THEN F
    ELSE LET tool_call == tool_calls[k]
             func_params == loads(tool_call.arguments)
             r == execute_tool_call(tool_call.name, func_params.value, F.session, F.database)
             ran == [F EXCEPT !.session = r.session,
                              !.dispatched = Append(@, Dispatched(tool_call, func_params.value,
                                                                  r.result))]
         IN IF func_params.raised THEN [F EXCEPT !.raised = TRUE]
            ELSE IF IsCheckoutSignal(r.result)
            THEN execute_tool_calls_no_preempt(
                     Outcome(history(history(send_text(handle_checkout_flow(ran, r.result),
                                                       end_signal),
                                             "user", Str(user_message)),
                                     "assistant", Str(starting_checkout_text)),
                             "checkout_entry"),
                     tool_calls, k + 1, user_message)
            ELSE execute_tool_calls_no_preempt(
                     [ran EXCEPT !.messages = Append(@, tool_message(tool_call, r.result))],
                     tool_calls, k + 1, user_message)

\* lines 315-343: the for loop over tool_calls, from the k-th call on
RECURSIVE execute_tool_calls(_, _, _, _)
execute_tool_calls(F, tool_calls, k, user_message) ==
    IF k > Len(tool_calls) \/ F.raised THEN F
    ELSE LET tool_call == tool_calls[k]
             func_params == loads(tool_call.arguments)
             r == execute_tool_call(tool_call.name, func_params.value, F.session, F.database)
             ran == [F EXCEPT !.session = r.session,
                              !.dispatched = Append(@, Dispatched(tool_call, func_params.value,
                                                                  r.result))]
         IN IF func_params.raised THEN [F EXCEPT !.raised = TRUE]
            ELSE IF IsCheckoutSignal(r.result)
            THEN Outcome(history(history(send_text(handle_checkout_flow(ran, r.result),
                                                   end_signal),
                                         "user", Str(user_message)),
                                 "assistant", Str(starting_checkout_text)),
                         "checkout_entry")
            ELSE execute_tool_calls(
                     [ran EXCEPT !.messages = Append(@, tool_message(tool_call, r.result))],
                     tool_calls, k + 1, user_message)

\* lines 291-295: the chunks of the final text
Chunks(final_text) ==
    [i \in 1..((Len(final_text) + chunk_size - 1) \div chunk_size) |->
        SubSeq(final_text, (i - 1) * chunk_size + 1, Min(i * chunk_size, Len(final_text)))]

RECURSIVE send_chunks(_, _, _)
send_chunks(F, chunks, i) ==
    IF i > Len(chunks) \/ F.raised THEN F
    ELSE send_chunks(send_text(F, chunks[i]), chunks, i + 1)

\* A variant that goes on to the sentinel and the history after a chunk failed.
stream_final_text_keeps_going(F, final_text, user_message) ==
    LET streamed == [send_chunks(F, Chunks(final_text), 1) EXCEPT !.raised = FALSE]
        ended == [send_text(streamed, end_signal) EXCEPT !.raised = FALSE]
    IN Outcome(history(history(ended, "user", Str(user_message)),
                       "assistant", Str(final_text)),
               "final")

\* lines 285-312: no tool calls, the final response
stream_final_text(F, final_text, user_message) ==
    LET streamed == send_chunks(F, Chunks(final_text), 1)
        ended == [send_text(streamed, end_signal) EXCEPT !.raised = FALSE]
    IN IF streamed.raised
       THEN [streamed EXCEPT !.raised = FALSE, !.outcome = "chunk_failed"]
       ELSE Outcome(history(history(ended, "user", Str(user_message)),
                            "assistant", Str(final_text)),
                    "final")

\* A variant that gives up the turn's session changes when the ceiling is hit.
loop_iteration_rollback(F, reply, user_message, iteration) ==
    IF reply.status_code # 200
    THEN Outcome(send_text(send_text(F, api_error_text), end_signal), "gateway_error")
    ELSE LET A == [F EXCEPT !.messages = Append(@, assistant_message(reply))]
         IN IF Len(reply.tool_calls) = 0
            THEN stream_final_text(A, reply.content, user_message)
            ELSE LET D == execute_tool_calls(A, reply.tool_calls, 1, user_message)
                 IN IF D.raised \/ D.outcome # "none" \/ iteration < max_iterations THEN D
                    ELSE Outcome(send_text(send_text([D EXCEPT !.session = Session],
                                                     took_too_long_text), end_signal),
                                 "ceiling")

\* A variant that calls the gateway again after a non-success status.
loop_iteration_retry(F, reply, user_message, iteration) ==
    IF reply.status_code # 200
    THEN F
    ELSE LET \* line 280
             A == [F EXCEPT !.messages = Append(@, assistant_message(reply))]
         IN IF Len(reply.tool_calls) = 0
            THEN stream_final_text(A, reply.content, user_message)
            ELSE LET D == execute_tool_calls(A, reply.tool_calls, 1, user_message)
                 IN IF D.raised \/ D.outcome # "none" \/ iteration < max_iterations THEN D
                    ELSE Outcome(send_text(send_text(D, took_too_long_text), end_signal),
                                 "ceiling")

\* lines 244-349: one pass of the while loop, iteration being the value after
\* "iteration += 1"; when the loop condition fails next, the code after the loop
loop_iteration(F, reply, user_message, iteration) ==
    IF reply.status_code # 200
    THEN Outcome(send_text(send_text(F, api_error_text), end_signal), "gateway_error")
    ELSE LET \* line 280
             A == [F EXCEPT !.messages = Append(@, assistant_message(reply))]
         IN IF Len(reply.tool_calls) = 0
            THEN stream_final_text(A, reply.content, user_message)
            ELSE LET D == execute_tool_calls(A, reply.tool_calls, 1, user_message)
                 IN IF D.raised \/ D.outcome # "none" \/ iteration < max_iterations THEN D
                    ELSE Outcome(send_text(send_text(D, took_too_long_text), end_signal),
                                 "ceiling")

\* A variant whose except clause sends the error text without the sentinel.
normal_branch_no_sentinel(F, reply, user_message, iteration) ==
    LET R == loop_iteration(F, reply, user_message, iteration)
    IN IF ~R.raised THEN R
       ELSE [send_text([R EXCEPT !.raised = FALSE], message_error_text)
                EXCEPT !.raised = FALSE, !.outcome = "exception"]

\* main.py lines 180-197: the call and its except clause
normal_branch(F, reply, user_message, iteration) ==
    LET R == loop_iteration(F, reply, user_message, iteration)
    IN IF ~R.raised THEN R
       ELSE [send_text(send_text([R EXCEPT !.raised = FALSE], message_error_text), end_signal)
                EXCEPT !.raised = FALSE, !.outcome = "exception"]

-----------------------------------------------------------------------------
(* The connection handler as a state machine.  conn[c] holds the handler's   *)
(* position (pc: "idle" before the connection, "receive" at receive_text,    *)
(* "loop" at the head of the agentic loop, "closed" after the handler has    *)
(* returned), whether the client is still there, and the locals of the turn. *)


\* session.py lines 308-337
to_context_dict(session) ==
    [lastShownProducts |-> session.last_shown_products,
     userProfile |-> session.user_profile,
     cart |-> session.cart]

\* session.py lines 222-250: the system message (its content given by what is
\* rendered into it: the context and the summary), the history, the user message
get_messages_for_api(session, current_user_message) ==
    <<[role |-> "system",
       content |-> [context |-> to_context_dict(session),
                    summary |-> session.conversation_summary]]>>
    \o session.conversation_history
    \o <<[role |-> "user", content |-> Str(current_user_message)]>>

\* messages is the local of handle_message_with_streaming; it is carried from one
\* step to the next only where keeps_messages says so, and left out otherwise
HandlerLocals(pc) ==
    [pc |-> pc, open |-> (pc # "idle"), turns |-> 0,
     iteration |-> 0, gateway_calls |-> 0, user_message |-> <<>>,
     keeps_messages |-> FALSE, messages |-> <<>>]

\* what a step reports in last_op.result
StepResult(F) == [outcome |-> F.outcome, sent |-> F.sent, dispatched |-> F.dispatched]

NoStepResult == [outcome |-> "none", sent |-> <<>>, dispatched |-> <<>>]

\* A variant that starts every session of the registry afresh.
create_session_reset_all(registry, connection_id) ==
    [c \in DOMAIN registry \cup {connection_id} |-> Session]

create_session(registry, connection_id) == registry @@ (connection_id :> Session)

destroy_session(registry, connection_id) ==
    IF connection_id \in DOMAIN registry THEN Without(registry, connection_id) ELSE registry

\* lines 114-126: accept, create the session
Connect(c) ==
    /\ conn[c].pc = "idle"
    /\ _sessions' = create_session(_sessions, c)
    /\ conn' = [conn EXCEPT ![c] = [HandlerLocals("receive") EXCEPT
                                       !.keeps_messages = conn[c].keeps_messages]]
    /\ last_op' = Op(c, "accept", NoParams, NoStepResult)
    /\ UNCHANGED db

\* line 132 raising: the client has gone; lines 135-139 leave the loop
ReceiveFails(c) ==
    /\ conn[c].pc = "receive"
    /\ conn' = [conn EXCEPT ![c].pc = "closed", ![c].open = FALSE]
    /\ last_op' = Op(c, "receive_failed", NoParams, NoStepResult)
    /\ UNCHANGED <<db, _sessions>>

\* lines 132, 178-187: a message outside the checkout flow starts a turn
ReceiveText(c, user_message, limit) ==
    /\ conn[c].pc = "receive"
    /\ conn[c].open
    /\ conn[c].turns < limit
    /\ ~in_checkout_flow(_sessions[c])
    /\ conn' = [conn EXCEPT ![c].pc = "loop", ![c].turns = @ + 1, ![c].iteration = 0,
                            ![c].gateway_calls = 0, ![c].user_message = user_message,
                            \* line 238
                            ![c].messages = IF conn[c].keeps_messages
                                            THEN get_messages_for_api(_sessions[c],
                                                                      user_message)
                                            ELSE <<>>]
    /\ last_op' = Op(c, "receive_text", [user_message |-> user_message], NoStepResult)
    /\ UNCHANGED <<db, _sessions>>

\* lines 142-176, 199-209: what the handler keeps of the checkout branch R
CheckoutHandled(c, user_message, R) ==
    /\ db' = R.database
    /\ IF R.raised
       THEN \* lines 199-209: the exception leaves the loop
            /\ _sessions' = destroy_session([_sessions EXCEPT ![c] = R.session], c)
            /\ conn' = [conn EXCEPT ![c].pc = "closed", ![c].open = FALSE,
                                    ![c].turns = @ + 1, ![c].iteration = 0,
                                    ![c].gateway_calls = 0,
                                    ![c].user_message = user_message]
       ELSE /\ _sessions' = [_sessions EXCEPT ![c] = R.session]
            /\ conn' = [conn EXCEPT ![c].open = ~R.broken,
                                    ![c].turns = @ + 1, ![c].iteration = 0,
                                    ![c].gateway_calls = 0,
                                    ![c].user_message = user_message]
    /\ last_op' = Op(c, "receive_text", [user_message |-> user_message],
                     [StepResult(R) EXCEPT !.outcome =
                          IF R.raised THEN "handler_exit" ELSE @])

\* lines 132, 142-176: a message inside the checkout flow, handled whole
ReceiveCheckoutText(c, user_message, alive, limit) ==
    /\ conn[c].pc = "receive"
    /\ conn[c].open
    /\ conn[c].turns < limit
    /\ in_checkout_flow(_sessions[c])
    /\ CheckoutHandled(c, user_message,
                       checkout_branch(Frame(_sessions[c], db, alive), user_message))

\* lines 244-349: what the handler keeps of the pass R of the agentic loop
PassHandled(c, reply, iteration, R) ==
    /\ LineQuantitiesBounded(R.session)
    /\ db' = R.database
    /\ _sessions' = [_sessions EXCEPT ![c] = R.session]
    /\ conn' = [conn EXCEPT ![c].pc = IF R.outcome = "none" THEN "loop" ELSE "receive",
                            ![c].open = @ /\ ~R.broken,
                            ![c].iteration = iteration,
                            ![c].gateway_calls = @ + 1,
                            ![c].messages = IF conn[c].keeps_messages THEN R.messages
                                            ELSE <<>>]
    /\ last_op' = Op(c, "gateway_call", reply, StepResult(R))

\* lines 244-349: one pass of the agentic loop with the gateway's reply
GatewayCall(c, reply, alive) ==
    /\ conn[c].pc = "loop"
    /\ conn[c].open \/ alive = 0
    /\ PassHandled(c, reply, conn[c].iteration + 1,
                   normal_branch([Frame(_sessions[c], db, alive) EXCEPT
                                      !.messages = conn[c].messages],
                                 reply, conn[c].user_message, conn[c].iteration + 1))

-----------------------------------------------------------------------------
(* Inputs: what the client sends and what the Model Gateway replies *)

Digits(n) == [k \in 1..n |-> IF k = 1 THEN "0" ELSE IF k = 2 THEN "9" ELSE "1"]

Labelled(phone) ==
    <<"Name:", " ", "A", ",", " ", "Phone:", " ">> \o phone \o <<",", " ", "Address:", " ", "X">>

Positional(phone) == <<"A", ",", " ">> \o phone \o <<",", " ", "X", ",", " ", "Y">>

Hello == <<"h", "i">>

UserTexts == {Hello}

CheckoutTexts ==
    {Hello,
     <<"A", ",", "0", "9">>,
     Labelled(Digits(10)), Labelled(Digits(11)),
     Labelled(<<"0", "9", "-">> \o Digits(9)),
     Positional(Digits(11)), Positional(<<"1">>)}

ToolCallMsg(id, name, params) == [id |-> id, name |-> name, arguments |-> dumps(params)]

ToolReply(tool_calls) == [status_code |-> 200, content |-> <<>>, tool_calls |-> tool_calls]

FinalReply(content) == [status_code |-> 200, content |-> content, tool_calls |-> <<>>]

ErrorReply == [status_code |-> 500, content |-> <<>>, tool_calls |-> <<>>]

Replies ==
    {ErrorReply,
     FinalReply(<<"o", "k">>),
     ToolReply(<<ToolCallMsg(1, "addToCart", [sku |-> "A", quantity |-> 1])>>),
     ToolReply(<<ToolCallMsg(1, "getCartState", NoParams),
                 ToolCallMsg(2, "initiateOrder", NoParams),
                 ToolCallMsg(3, "addToCart", [sku |-> "B", quantity |-> 1])>>),
     ToolReply(<<ToolCallMsg(1, "addToCart", [sku |-> "B", quantity |-> 1]),
                 ToolCallMsg(2, "initiateOrder", NoParams),
                 ToolCallMsg(3, "removeFromCart", [sku |-> "B"])>>),
     ToolReply(<<ToolCallMsg(1, "removeFromCart", [sku |-> "A"]),
                 ToolCallMsg(2, "searchProducts", NoParams)>>),
     ToolReply(<<[id |-> 1, name |-> "addToCart", arguments |-> malformed_json]>>)}

Init ==
    /\ db = InitialDb
    /\ _sessions = [c \in {} |-> Session]
    /\ conn = [c \in Conns |-> HandlerLocals("idle")]
    /\ last_op = Op("none", "start", NoParams, NoStepResult)

Next ==
    \/ \E c \in Conns : Connect(c)
    \/ \E c \in Conns : ReceiveFails(c)
    \/ \E c \in Conns, m \in UserTexts : ReceiveText(c, m, MaxTurns)
    \/ \E c \in Conns, m \in CheckoutTexts, alive \in Alive :
           ReceiveCheckoutText(c, m, alive, MaxTurns)
    \/ \E c \in Conns, reply \in Replies, alive \in Alive : GatewayCall(c, reply, alive)

Spec == Init /\ [][Next]_vars

-----------------------------------------------------------------------------
(* Properties of the connection handler (checked under Spec) *)

IsStep(op, c, name) == op.conn = c /\ op.name = name

Connected(registry, c) == c \in DOMAIN registry

SignalPositions(dispatched) ==
    {k \in 1..Len(dispatched) : IsCheckoutSignal(dispatched[k].result)}

\* the session after the first n calls of a batch, one call after another
RECURSIVE EffectsOf(_, _, _, _)
EffectsOf(session, database, tool_calls, n) ==
    IF n = 0 THEN session
    ELSE execute_tool_call(tool_calls[n].name, tool_calls[n].arguments.value,
                           EffectsOf(session, database, tool_calls, n - 1), database).session

\* C1: in the agentic loop a gateway reply that carries tool calls, none of whose
\* results is a checkout signal, is followed by another gateway call until exactly
\* max_iterations calls were made in the turn; then "Processing took too long" and
\* the end-of-turn sentinel are sent and the turn is over: never before, and no
\* gateway call after.
C1_CeilingExact ==
    \A c \in Conns :
        /\ conn[c].gateway_calls <= max_iterations
        /\ conn[c].pc = "loop" => conn[c].gateway_calls < max_iterations
        /\ (IsStep(last_op, c, "gateway_call") /\ last_op.result.outcome = "ceiling")
               => conn[c].gateway_calls = max_iterations
        /\ (/\ IsStep(last_op, c, "gateway_call")
            /\ conn[c].open
            /\ last_op.params.status_code = 200
            /\ Len(last_op.params.tool_calls) >= 1
            /\ SignalPositions(last_op.result.dispatched) = {})
               => IF conn[c].gateway_calls < max_iterations
                  THEN conn[c].pc = "loop" /\ last_op.result.sent = <<>>
                  ELSE /\ conn[c].pc = "receive"
                       /\ last_op.result.sent =
                              <<TextFrame(took_too_long_text), TextFrame(end_signal)>>

C3_CheckoutBypassesLoop ==
    [][\A c \in Conns :
          (Connected(_sessions, c) /\ _sessions[c].awaiting_checkout)
          => /\ ~IsStep(last_op', c, "gateway_call")
             /\ IsStep(last_op', c, "receive_text")
                => /\ conn'[c].pc \in {"receive", "closed"}
                   /\ conn'[c].gateway_calls = 0
                   /\ last_op'.result.dispatched = <<>>
                   /\ last_op'.result.outcome \in
                          {"checkout_completed", "checkout_reprompt",
                           "checkout_error", "handler_exit"}
                   /\ (parse_customer_info(last_op'.params.user_message) = None
                          => db' = db)
      ]_vars

\* C3 witness: a checkout message was parsed and completed without a gateway call.
C3_Witness ==
    /\ last_op.name = "receive_text"
    /\ last_op.result.outcome = "checkout_completed"
    /\ conn[last_op.conn].gateway_calls = 0
    /\ Len(db.orders) = 1

\* C4: awaiting_checkout goes from false to true only in a step in which a
\* dispatched initiateOrder, seeing a non-empty cart, returned the checkout signal;
\* receiving a user text never sets it; initiateOrder on an empty cart returns a
\* failure without the signal and the flag stays false.
C4_FlagSetOnlyBySignal ==
    [][\A c \in Conns :
          LET op == last_op'
              batch == op.params.tool_calls
              dispatched == op.result.dispatched
          IN /\ (/\ Connected(_sessions, c) /\ ~_sessions[c].awaiting_checkout
                 /\ Connected(_sessions', c) /\ _sessions'[c].awaiting_checkout)
                => /\ IsStep(op, c, "gateway_call")
                   /\ dispatched # <<>>
                   /\ dispatched[Len(dispatched)].name = "initiateOrder"
                   /\ IsCheckoutSignal(dispatched[Len(dispatched)].result)
                   /\ DOMAIN EffectsOf(_sessions[c], db, batch, Len(dispatched) - 1).cart # {}
             /\ (~Connected(_sessions, c) /\ Connected(_sessions', c))
                => ~_sessions'[c].awaiting_checkout
             /\ IsStep(op, c, "gateway_call")
                => \A k \in 1..Len(dispatched) :
                       (/\ dispatched[k].name = "initiateOrder"
                        /\ DOMAIN EffectsOf(_sessions[c], db, batch, k - 1).cart = {})
                       => /\ ~IsCheckoutSignal(dispatched[k].result)
                          /\ Has(dispatched[k].result, "success")
                          /\ dispatched[k].result.success = FALSE
                          /\ SignalPositions(dispatched) = {}
                             => ~_sessions'[c].awaiting_checkout
      ]_vars

\* C4 witness: initiateOrder ran on an empty cart inside a batch, returned a failure,
\* the batch went on and the flag is false.
C4_Witness ==
    /\ last_op.name = "gateway_call"
    /\ Len(last_op.result.dispatched) = 3
    /\ last_op.result.dispatched[2].name = "initiateOrder"
    /\ Has(last_op.result.dispatched[2].result, "success")
    /\ ~_sessions[last_op.conn].awaiting_checkout
    /\ conn[last_op.conn].pc = "loop"

\* The phone rule of the checkout protocol: spaces and dashes removed, exactly 11
\* digits, the first two being "0" and "9".
DigitUnits == {"0", "1", "2", "3", "4", "5", "6", "7", "8", "9"}

StripSpacesAndDashes(t) == SelectSeq(t, LAMBDA u : u \notin {" ", "-"})

ValidPhone(phone) ==
    LET p == StripSpacesAndDashes(phone)
    IN /\ Len(p) = 11
       /\ \A k \in 1..Len(p) : p[k] \in DigitUnits
       /\ p[1] = "0" /\ p[2] = "9"

\* C9: a checkout message of a matching shape whose phone field is not a valid phone
\* is a parse failure: no order is created, the cart is unchanged and
\* awaiting_checkout stays true.
C9_InvalidPhoneRejected ==
    [][\A c \in Conns :
          LET message == last_op'.params.user_message
              customer_info == parse_customer_info(message)
          IN (/\ Connected(_sessions, c) /\ _sessions[c].awaiting_checkout
              /\ IsStep(last_op', c, "receive_text")
              /\ conn'[c].open
              /\ customer_info # None
              /\ ~ValidPhone(customer_info.phone))
             => /\ db'.orders = db.orders
                /\ _sessions'[c].cart = _sessions[c].cart
                /\ _sessions'[c].awaiting_checkout
      ]_vars

-----------------------------------------------------------------------------
(* The handler over longer conversations: more turns, fewer kinds of input  *)

HistoryReplies ==
    {FinalReply(<<"o", "k">>),
     ToolReply(<<ToolCallMsg(1, "addToCart", [sku |-> "B", quantity |-> 1]),
                 ToolCallMsg(2, "initiateOrder", NoParams),
                 ToolCallMsg(3, "removeFromCart", [sku |-> "B"])>>)}

HistoryCheckoutTexts == {Hello, Labelled(Digits(11))}

NextHistory ==
    \/ \E c \in Conns : Connect(c)
    \/ \E c \in Conns : ReceiveFails(c)
    \/ \E c \in Conns, m \in UserTexts : ReceiveText(c, m, MaxHistoryTurns)
    \/ \E c \in Conns, m \in HistoryCheckoutTexts, alive \in Alive :
           ReceiveCheckoutText(c, m, alive, MaxHistoryTurns)
    \/ \E c \in Conns, reply \in HistoryReplies, alive \in Alive : GatewayCall(c, reply, alive)

HistorySpec == Init /\ [][NextHistory]_vars

LastTwo(entries) == SubSeq(entries, Len(entries) - 1, Len(entries))

\* C10: when a message received while awaiting_checkout is true fails to parse (and
\* the client is there to be answered), the handler sends the re-prompt and the
\* end-of-turn sentinel and nothing else, appends the user message and then the
\* re-prompt to the history, creates no order, leaves the cart unchanged and leaves
\* awaiting_checkout true, and waits for the next message.
C10_RepromptOnParseFailure ==
    [][\A c \in Conns :
          LET message == last_op'.params.user_message
          IN (/\ Connected(_sessions, c) /\ _sessions[c].awaiting_checkout
              /\ IsStep(last_op', c, "receive_text")
              /\ conn'[c].open
              /\ parse_customer_info(message) = None)
             => /\ last_op'.result.sent = <<TextFrame(response_text), TextFrame(end_signal)>>
                /\ Len(_sessions'[c].conversation_history) >= 2
                /\ LastTwo(_sessions'[c].conversation_history) =
                       <<[role |-> "user", content |-> Str(message)],
                         [role |-> "assistant", content |-> Str(response_text)]>>
                /\ db' = db
                /\ _sessions'[c].cart = _sessions[c].cart
                /\ _sessions'[c].awaiting_checkout
                /\ conn'[c].pc = "receive"
      ]_vars

-----------------------------------------------------------------------------
(* main.py: update_order_status (PATCH /api/orders/{order_id}/status).  The  *)
(* response is the JSON body with its status code, or the HTTPException.    *)

valid_statuses == {"pending", "confirmed", "shipped", "delivered", "rejected"}

HTTPException(status_code, detail) == [status_code |-> status_code, detail |-> detail]

Refused(database, response) == [database |-> database, response |-> response]

\* lines 777-780: each line's quantity goes back to its product, if it still exists
restore_stock(products, items) ==
    [k \in DOMAIN products |->
        IF k \in DOMAIN items
        THEN [products[k] EXCEPT !.stock = @ + items[k].quantity]
        ELSE products[k]]

\* A variant that restores the stock on every accepted transition.
update_order_status_restore_always(database, order_id, status) ==
    LET found == {i \in 1..Len(database.orders) : database.orders[i].id = order_id}
    IN IF status \notin valid_statuses
       THEN Refused(database, HTTPException(400, "Invalid status"))
       ELSE IF found = {}
       THEN Refused(database, HTTPException(404, "Order not found"))
       ELSE LET i == CHOOSE i \in found : TRUE
                order == database.orders[i]
            IN IF order.status = "rejected"
               THEN Refused(database, HTTPException(400, "Order is already rejected."))
               ELSE [database |->
                         [database EXCEPT
                            !.products = restore_stock(@, order.items),
                            !.orders[i].status = status],
                     response |-> [status_code |-> 200, message |-> "Status updated",
                                   new_status |-> status]]

\* A variant without the test for an order that is already rejected.
update_order_status_reopen(database, order_id, status) ==
    LET found == {i \in 1..Len(database.orders) : database.orders[i].id = order_id}
    IN IF status \notin valid_statuses
       THEN Refused(database, HTTPException(400, "Invalid status"))
       ELSE IF found = {}
       THEN Refused(database, HTTPException(404, "Order not found"))
       ELSE LET i == CHOOSE i \in found : TRUE
                order == database.orders[i]
            IN [database |->
                    [database EXCEPT
                       !.products = IF status = "rejected"
                                    THEN restore_stock(@, order.items)
                                    ELSE @,
                       !.orders[i].status = status],
                response |-> [status_code |-> 200, message |-> "Status updated",
                              new_status |-> status]]

update_order_status(database, order_id, status) ==
    LET found == {i \in 1..Len(database.orders) : database.orders[i].id = order_id}
    IN IF status \notin valid_statuses
       THEN Refused(database, HTTPException(400, "Invalid status"))
       ELSE IF found = {}
       THEN Refused(database, HTTPException(404, "Order not found"))
       ELSE LET i == CHOOSE i \in found : TRUE
                order == database.orders[i]
            IN IF order.status = "rejected"
               THEN Refused(database, HTTPException(400, "Order is already rejected."))
               ELSE [database |->
                         [database EXCEPT
                            !.products = IF status = "rejected"
                                         THEN restore_stock(@, order.items)
                                         ELSE @,
                            !.orders[i].status = status],
                     response |-> [status_code |-> 200, message |-> "Status updated",
                                   new_status |-> status]]

UpdateOrderStatus(order_id, status) ==
    LET r == update_order_status(db, order_id, status)
    IN /\ db' = r.database
       /\ last_op' = Op("admin", "update_order_status",
                        [order_id |-> order_id, status |-> status], r.response)
       /\ UNCHANGED <<_sessions, conn>>

-----------------------------------------------------------------------------
(* The order specification: one customer who fills the cart, checks out and *)
(* places orders, while the admin edits product A and moves the orders      *)
(* through their statuses.                                                  *)

MaxOrderTurns == 4

OrderIds == 1..(MaxOrderTurns \div 2)

StatusArgs == {"confirmed", "rejected", "cancelled"}

\* product B is never out of stock, so every reply ends in the checkout signal
OrderReplies ==
    {ToolReply(<<ToolCallMsg(1, "addToCart", [sku |-> "A", quantity |-> 2]),
                 ToolCallMsg(2, "addToCart", [sku |-> "B", quantity |-> 1]),
                 ToolCallMsg(3, "initiateOrder", NoParams)>>),
     ToolReply(<<ToolCallMsg(1, "addToCart", [sku |-> "A", quantity |-> 1]),
                 ToolCallMsg(2, "addToCart", [sku |-> "B", quantity |-> 1]),
                 ToolCallMsg(3, "initiateOrder", NoParams)>>)}

OrderCheckoutTexts == {Labelled(Digits(11))}

NextOrder ==
    \/ \E c \in Conns : Connect(c)
    \/ \E c \in Conns, m \in UserTexts : ReceiveText(c, m, MaxOrderTurns)
    \/ \E c \in Conns, m \in OrderCheckoutTexts, alive \in {0, StaysOpen} :
           ReceiveCheckoutText(c, m, alive, MaxOrderTurns)
    \/ \E c \in Conns, reply \in OrderReplies : GatewayCall(c, reply, StaysOpen)
    \/ \E sku \in AdminSKUs, v \in ProductVersions, stock \in Stocks : AdminUpdate(sku, v, stock)
    \/ \E order_id \in OrderIds, status \in StatusArgs : UpdateOrderStatus(order_id, status)

OrderSpec == Init /\ [][NextOrder]_vars

-----------------------------------------------------------------------------
(* Properties of order finalize (checked under OrderSpec) *)

\* the step is the handling of a message received in the checkout flow whose
\* customer info parses, with a line in the cart
FinalizeAttempt(c) ==
    /\ IsStep(last_op', c, "receive_text")
    /\ c \in DOMAIN _sessions
    /\ in_checkout_flow(_sessions[c])
    /\ parse_customer_info(last_op'.params.user_message) # None
    /\ DOMAIN _sessions[c].cart # {}

LastOrder(database) == database.orders[Len(database.orders)]

OrdersKept == SubSeq(db'.orders, 1, Len(db.orders)) = db.orders

OrderPlaced == Len(db'.orders) = Len(db.orders) + 1 /\ OrdersKept

(* C12: a finalize that places an order lowers the catalog stock of every   *)
(* ordered product by the quantity of its order line, and not below zero.   *)
C12_FinalizeDecrementsStock ==
    [][\A c \in Conns :
          (FinalizeAttempt(c) /\ OrderPlaced) =>
              \A k \in DOMAIN LastOrder(db').items :
                  ProductExists(db, k) =>
                      /\ ProductExists(db', k)
                      /\ db'.products[k].stock =
                             db.products[k].stock - LastOrder(db').items[k].quantity
                      /\ db'.products[k].stock >= 0]_vars

\* cart lines that ask for more than their product's stock, which is not zero
Insufficient(session, database) ==
    {k \in DOMAIN session.cart :
        /\ ProductExists(database, k)
        /\ database.products[k].stock # 0
        /\ session.cart[k].quantity > database.products[k].stock}

\* cart lines whose product has no stock left
OutOfStock(session, database) ==
    {k \in DOMAIN session.cart :
        ProductExists(database, k) /\ database.products[k].stock = 0}

(* C13: when a cart line asks for more than the product's current non-zero  *)
(* stock, finalize creates no order and no order line and leaves the stock  *)
(* and the cart as they were.                                               *)
C13_InsufficientStockAborts ==
    [][\A c \in Conns :
          (FinalizeAttempt(c) /\ Insufficient(_sessions[c], db) # {}) =>
              /\ db' = db
              /\ c \in DOMAIN _sessions' => _sessions'[c].cart = _sessions[c].cart]_vars

(* C14: when a cart line's product has zero stock, finalize creates no      *)
(* order, removes that line from the cart and keeps the other lines.        *)
C14_ZeroStockLineRemoved ==
    [][\A c \in Conns :
          (FinalizeAttempt(c) /\ OutOfStock(_sessions[c], db) # {}) =>
              /\ db'.orders = db.orders
              /\ c \in DOMAIN _sessions' =>
                     /\ DOMAIN _sessions'[c].cart =
                            DOMAIN _sessions[c].cart \ OutOfStock(_sessions[c], db)
                     /\ \A k \in DOMAIN _sessions'[c].cart :
                            _sessions'[c].cart[k] = _sessions[c].cart[k]]_vars

(* C16: a step of the checkout flow changes the data store all-or-nothing:  *)
(* either nothing is written, or the order is there with a line for every   *)
(* cart line and the stock of every ordered product is lowered by the       *)
(* line's quantity.                                                         *)
C16_FinalizeAllOrNothing ==
    [][\A c \in Conns :
          (/\ IsStep(last_op', c, "receive_text")
           /\ c \in DOMAIN _sessions
           /\ in_checkout_flow(_sessions[c])) =>
              \/ db' = db
              \/ /\ OrderPlaced
                 /\ DOMAIN LastOrder(db').items = DOMAIN _sessions[c].cart
                 /\ \A k \in DOMAIN _sessions[c].cart :
                        ProductExists(db, k) =>
                            /\ ProductExists(db', k)
                            /\ db'.products[k].stock =
                                   db.products[k].stock - _sessions[c].cart[k].quantity]_vars

-----------------------------------------------------------------------------
(* The last-unit specification: two customers on their own connections,     *)
(* one unit of product A in stock.  finalizeOrder runs without an await, so *)
(* the handling of a checkout message is one step of its connection; the    *)
(* steps of the two connections interleave freely.                          *)

Shoppers == {"c1", "c2"}

LastUnitReplies ==
    {ToolReply(<<ToolCallMsg(1, "addToCart", [sku |-> "A", quantity |-> 1]),
                 ToolCallMsg(2, "initiateOrder", NoParams)>>),
     FinalReply(<<"o", "k">>)}

InitLastUnit ==
    /\ db = [InitialDb EXCEPT !.products["A"].stock = 1]
    /\ _sessions = [c \in {} |-> Session]
    /\ conn = [c \in Shoppers |-> HandlerLocals("idle")]
    /\ last_op = Op("none", "start", NoParams, NoStepResult)

NextLastUnit ==
    \/ \E c \in Shoppers : Connect(c)
    \/ \E c \in Shoppers, m \in UserTexts : ReceiveText(c, m, MaxTurns)
    \/ \E c \in Shoppers, m \in OrderCheckoutTexts :
           ReceiveCheckoutText(c, m, StaysOpen, MaxTurns)
    \/ \E c \in Shoppers, reply \in LastUnitReplies : GatewayCall(c, reply, StaysOpen)

LastUnitSpec == InitLastUnit /\ [][NextLastUnit]_vars

HoldsLastUnit(registry, c) ==
    /\ c \in DOMAIN registry
    /\ "A" \in DOMAIN registry[c].cart
    /\ registry[c].cart["A"].quantity = 1

\* the connection has been through the checkout flow with its customer info
SentCustomerInfo(c) ==
    /\ conn[c].pc = "receive"
    /\ c \in DOMAIN _sessions
    /\ \E i \in 1..Len(_sessions[c].conversation_history) :
           /\ _sessions[c].conversation_history[i].role = "user"
           /\ _sessions[c].conversation_history[i].content = Str(Labelled(Digits(11)))

(* C15: once both customers, each holding the last unit of A, have sent     *)
(* their customer info, exactly one order exists, the stock of A is 0, and  *)
(* the other customer still holds the line in the cart.                     *)
C15_LastUnitSoldOnce ==
    (\A c \in Shoppers : SentCustomerInfo(c)) =>
        /\ Len(db.orders) = 1
        /\ db.products["A"].stock = 0
        /\ \E c \in Shoppers : HoldsLastUnit(_sessions, c)

-----------------------------------------------------------------------------
(* Properties of the order status (checked under OrderSpec) *)

StatusUpdate == IsStep(last_op', "admin", "update_order_status")

OrdersWithId(database, order_id) ==
    {i \in 1..Len(database.orders) : database.orders[i].id = order_id}

Rejected(database) ==
    {i \in 1..Len(database.orders) : database.orders[i].status = "rejected"}

QuantityOf(order, k) == IF k \in DOMAIN order.items THEN order.items[k].quantity ELSE 0

RECURSIVE RestoredQuantity(_, _, _)
RestoredQuantity(database, k, n) ==
    IF n = 0 THEN 0
    ELSE RestoredQuantity(database, k, n - 1)
         + (IF n \in Rejected(database) THEN QuantityOf(database.orders[n], k) ELSE 0)

C18_RejectedIsTerminal ==
    [][\A i \in Rejected(db) :
          /\ i \in Rejected(db')
          /\ (StatusUpdate /\ i \in OrdersWithId(db, last_op'.params.order_id)) =>
                 /\ last_op'.result.status_code >= 400
                 /\ Has(last_op'.result, "detail")
                 /\ db' = db]_vars

\* an update to "confirmed" of a rejected order has just been refused
C18_Witness ==
    /\ IsStep(last_op, "admin", "update_order_status")
    /\ last_op.params = [order_id |-> 1, status |-> "confirmed"]
    /\ last_op.result = HTTPException(400, "Order is already rejected.")
    /\ 1 \in Rejected(db)

-----------------------------------------------------------------------------
(* Properties of the conversation history (checked under HistorySpec) *)

(* C19: after every call of add_to_history, on every path of the handler,   *)
(* the conversation history holds at most 10 entries.                       *)
C19_HistoryAtMostLimit ==
    \A c \in DOMAIN _sessions :
        Len(_sessions[c].conversation_history) <= history_limit

-----------------------------------------------------------------------------
(* The dispatch specification: the agentic loop over replies whose tool     *)
(* calls name an unknown tool or make the tool function raise.              *)

DispatchReplies ==
    {FinalReply(<<"o", "k">>),
     ToolReply(<<ToolCallMsg(1, "addToCart", [sku |-> "A", quantity |-> 1])>>),
     ToolReply(<<ToolCallMsg(1, "noSuchTool", NoParams),
                 ToolCallMsg(2, "addToCart", [sku |-> "B", quantity |-> 1])>>),
     ToolReply(<<ToolCallMsg(1, "noSuchTool", NoParams),
                 ToolCallMsg(2, "updateCartItem", [sku |-> "A"]),
                 ToolCallMsg(3, "getCartState", NoParams)>>)}

NextDispatch ==
    \/ \E c \in Conns : Connect(c)
    \/ \E c \in Conns, m \in UserTexts : ReceiveText(c, m, MaxTurns)
    \/ \E c \in Conns, reply \in DispatchReplies : GatewayCall(c, reply, StaysOpen)

DispatchSpec == Init /\ [][NextDispatch]_vars

-----------------------------------------------------------------------------
(* Properties of tool dispatch (checked under DispatchSpec) *)

WellFormed(tool_call) == tool_call.arguments.wellformed

UnknownName(tool_call) == tool_call.name \notin FUNCTION_REGISTRY

\* the call names no registered tool, or the tool function raises on it
Faulty(tool_call) ==
    /\ WellFormed(tool_call)
    /\ \/ UnknownName(tool_call)
       \/ ~Binds(tool_call.name, tool_call.arguments.value)

\* the for loop gets to the k-th call: no call before it gave the checkout signal
Reached(dispatched, k) ==
    /\ Len(dispatched) >= k - 1
    /\ \A j \in 1..(k - 1) : ~IsCheckoutSignal(dispatched[j].result)

(* C20: a tool call that names no registered tool, or whose tool function   *)
(* raises, comes back from execute_tool_call as a result with an "error"    *)
(* field, which the loop records as that call's tool result; the loop then  *)
(* goes on to the next call of the batch and, after the batch, to the next  *)
(* iteration.  A batch of calls none of which writes, one of them with an   *)
(* unknown name, leaves the session and the data store unchanged.           *)
C20_ToolFailureIsAResult ==
    [][\A c \in Conns :
          (IsStep(last_op', c, "gateway_call") /\ last_op'.params.status_code = 200) =>
              LET tool_calls == last_op'.params.tool_calls
                  dispatched == last_op'.result.dispatched
                  N == Len(tool_calls)
              IN /\ \A k \in 1..N :
                        (Faulty(tool_calls[k]) /\ Reached(dispatched, k)) =>
                            /\ Len(dispatched) >= k
                            /\ dispatched[k].id = tool_calls[k].id
                            /\ dispatched[k].name = tool_calls[k].name
                            /\ Has(dispatched[k].result, "error")
                            /\ (k < N /\ WellFormed(tool_calls[k + 1])) =>
                                   Len(dispatched) >= k + 1
                            /\ (/\ \A j \in 1..N : WellFormed(tool_calls[j])
                                /\ \A j \in 1..Len(dispatched) :
                                       ~IsCheckoutSignal(dispatched[j].result)
                                /\ conn'[c].iteration < max_iterations) =>
                                   /\ Len(dispatched) = N
                                   /\ last_op'.result.outcome = "none"
                                   /\ conn'[c].pc = "loop"
                 /\ (/\ \E k \in 1..N : WellFormed(tool_calls[k]) /\ UnknownName(tool_calls[k])
                     /\ \A k \in 1..N :
                            Faulty(tool_calls[k])
                            \/ (WellFormed(tool_calls[k]) /\ tool_calls[k].name = "getCartState")) =>
                        /\ _sessions' = _sessions
                        /\ db' = db]_vars

\* with a line in the cart, a batch of an unknown tool, a call that raises and
\* getCartState has been dispatched to its end, and the loop goes on
C20_Witness ==
    /\ IsStep(last_op, "c1", "gateway_call")
    /\ Len(last_op.result.dispatched) = 3
    /\ last_op.result.dispatched[1].name = "noSuchTool"
    /\ Has(last_op.result.dispatched[1].result, "error")
    /\ last_op.result.dispatched[2].name = "updateCartItem"
    /\ Has(last_op.result.dispatched[2].result, "error")
    /\ last_op.result.dispatched[3].name = "getCartState"
    /\ ~Has(last_op.result.dispatched[3].result, "error")
    /\ DOMAIN _sessions["c1"].cart # {}
    /\ conn["c1"].pc = "loop"
    /\ conn["c1"].iteration >= 2

-----------------------------------------------------------------------------
(* Properties of a turn's error paths (checked under Spec) *)

Malformed(tool_call) == ~tool_call.arguments.wellformed

(* C21: a tool call whose arguments string is not JSON is an error of that   *)
(* call only: when the loop gets to it, the call is recorded with an error   *)
(* result for the model, the calls after it in the batch are dispatched, and *)
(* the turn is not ended by it (no "Error processing message" exit; below    *)
(* the iteration ceiling the handler stays in the loop).                     *)
C21_MalformedArgumentsIsAResult ==
    \A c \in Conns :
        (IsStep(last_op, c, "gateway_call") /\ last_op.params.status_code = 200) =>
            LET tool_calls == last_op.params.tool_calls
                dispatched == last_op.result.dispatched
            IN \A k \in 1..Len(tool_calls) :
                   (Malformed(tool_calls[k]) /\ Reached(dispatched, k)) =>
                       /\ Len(dispatched) >= k
                       /\ dispatched[k].id = tool_calls[k].id
                       /\ Has(dispatched[k].result, "error")
                       /\ k < Len(tool_calls) => Len(dispatched) >= k + 1
                       /\ last_op.result.outcome # "exception"
                       /\ (/\ Len(tool_calls) = 1
                           /\ conn[c].iteration < max_iterations
                           /\ conn[c].open) => conn[c].pc = "loop"

(* C22: a gateway call that returns a non-success status ends the turn: with *)
(* the client still there, exactly the error message and then the            *)
(* end-of-turn sentinel are sent; no tool is dispatched, the session         *)
(* (conversation history included) and the data store are left as they       *)
(* were, and the handler goes back to waiting for a message, so the turn     *)
(* makes no further gateway call.                                            *)
C22_GatewayErrorEndsTurn ==
    [][\A c \in Conns :
          (IsStep(last_op', c, "gateway_call") /\ last_op'.params.status_code # 200) =>
              /\ last_op'.result.dispatched = <<>>
              /\ _sessions'[c].conversation_history = _sessions[c].conversation_history
              /\ _sessions' = _sessions
              /\ db' = db
              /\ conn'[c].pc = "receive"
              /\ conn'[c].gateway_calls = conn[c].gateway_calls + 1
              /\ conn'[c].open =>
                     /\ last_op'.result.outcome = "gateway_error"
                     /\ last_op'.result.sent =
                            <<TextFrame(api_error_text), TextFrame(end_signal)>>]_vars

\* in a second turn, after a tool call filled the cart, the gateway fails and the
\* two frames went out
C22_Witness ==
    /\ IsStep(last_op, "c1", "gateway_call")
    /\ last_op.params.status_code = 500
    /\ last_op.result.sent = <<TextFrame(api_error_text), TextFrame(end_signal)>>
    /\ conn["c1"].open
    /\ conn["c1"].gateway_calls >= 2
    /\ _sessions["c1"].conversation_history # <<>>
    /\ DOMAIN _sessions["c1"].cart # {}

(* C24: once the connection handler has stopped because the client went     *)
(* away, while the handler waited for a message or in the middle of a turn, *)
(* the session registry holds no entry for that connection id.              *)
C24_SessionDestroyedOnDisconnect ==
    \A c \in Conns : conn[c].pc = "closed" => ~Connected(_sessions, c)

-----------------------------------------------------------------------------
(* Liveness of a turn.  requests.post (main.py 271) returns or raises, and   *)
(* the handler is a coroutine that runs on from there: a handler at the head *)
(* of the agentic loop does take its next pass.  LiveSpec is Spec with that  *)
(* weak fairness on the gateway step of every connection.                    *)

LiveSpec ==
    /\ Spec
    /\ \A c \in Conns :
           WF_vars(\E reply \in Replies, alive \in Alive : GatewayCall(c, reply, alive))

EndsWithSentinel(sent) == Len(sent) >= 1 /\ sent[Len(sent)] = TextFrame(end_signal)

\* the handler of c has just finished a message and is back at receive_text
HandledMessage(c) ==
    /\ conn[c].pc = "receive"
    /\ \/ IsStep(last_op, c, "gateway_call")
       \/ IsStep(last_op, c, "receive_text")

-----------------------------------------------------------------------------
(* session.py: last_shown_products and resolve_reference.  Here a str is a  *)
(* sequence of characters.  The product id is the key of the product in the *)
(* products table; the result is None or the id, carried as Resolved(id).   *)

ShownProduct(position, product_id, name, price, sku) ==
    [position |-> position, product_id |-> product_id, name |-> name, price |-> price,
     sku |-> sku]

update_last_shown(session, products) == [session EXCEPT !.last_shown_products = products]

Resolved(product_id) == [product_id |-> product_id]

\* word in text
Occurs(word, t) ==
    \E i \in 1..(Len(t) - Len(word) + 1) : SubSeq(t, i, i + Len(word) - 1) = word

DigitChars == <<"0", "1", "2", "3", "4", "5", "6", "7", "8", "9">>

IsDigit(u) == \E d \in 1..Len(DigitChars) : DigitChars[d] = u

DigitValue(u) == (CHOOSE d \in 1..Len(DigitChars) : DigitChars[d] = u) - 1

\* int(s) for a run of digits
RECURSIVE int(_)
int(s) ==
    IF Len(s) = 0 THEN 0
    ELSE 10 * int(SubSeq(s, 1, Len(s) - 1)) + DigitValue(s[Len(s)])

\* re.search(r'\d+', t).group(): the leftmost run of digits, as long as it goes;
\* the empty text when there is no digit
first_digits(t) ==
    LET at == {k \in 1..Len(t) : IsDigit(t[k])}
    IN IF at = {} THEN <<>>
       ELSE LET from == MinOf(at)
                upto == MaxOf({k \in from..Len(t) : \A j \in from..k : IsDigit(t[j])})
            IN SubSeq(t, from, upto)

\* lines 139: the default references
default_references == {<<"t", "h", "a", "t">>, <<"t", "h", "a", "t", " ", "o", "n", "e">>, <<"i", "t">>}

\* lines 143-146: the dict, in the order of its items()
ordinals ==
    <<[word |-> <<"f", "i", "r", "s", "t">>, pos |-> 1],
      [word |-> <<"s", "e", "c", "o", "n", "d">>, pos |-> 2],
      [word |-> <<"t", "h", "i", "r", "d">>, pos |-> 3],
      [word |-> <<"f", "o", "u", "r", "t", "h">>, pos |-> 4],
      [word |-> <<"f", "i", "f", "t", "h">>, pos |-> 5],
      [word |-> <<"1", "s", "t">>, pos |-> 1],
      [word |-> <<"2", "n", "d">>, pos |-> 2],
      [word |-> <<"3", "r", "d">>, pos |-> 3],
      [word |-> <<"4", "t", "h">>, pos |-> 4],
      [word |-> <<"5", "t", "h">>, pos |-> 5]>>

\* A variant that scans for a digit before the ordinal words.
resolve_reference_digits_first(session, ref) ==
    LET shown == session.last_shown_products
        ref_lower == strip(lower_str(ref))
        hits == {i \in 1..Len(ordinals) :
                    Occurs(ordinals[i].word, ref_lower) /\ ordinals[i].pos <= Len(shown)}
        digits == first_digits(ref_lower)
    IN IF Len(shown) = 0 THEN None
       ELSE IF ref_lower \in default_references THEN Resolved(shown[1].product_id)
       ELSE IF Len(digits) > 0 /\ 1 <= int(digits) /\ int(digits) <= Len(shown)
       THEN Resolved(shown[int(digits)].product_id)
       ELSE IF hits # {} THEN Resolved(shown[ordinals[MinOf(hits)].pos].product_id)
       ELSE None

\* lines 120-160
resolve_reference(session, ref) ==
    LET shown == session.last_shown_products
        ref_lower == strip(lower_str(ref))
        \* the items whose word occurs and whose position is in the list; the for
        \* loop returns at the first of them
        hits == {i \in 1..Len(ordinals) :
                    Occurs(ordinals[i].word, ref_lower) /\ ordinals[i].pos <= Len(shown)}
        digits == first_digits(ref_lower)
    IN IF Len(shown) = 0 THEN None
       ELSE IF ref_lower \in default_references THEN Resolved(shown[1].product_id)
       ELSE IF hits # {} THEN Resolved(shown[ordinals[MinOf(hits)].pos].product_id)
       ELSE IF Len(digits) > 0 /\ 1 <= int(digits) /\ int(digits) <= Len(shown)
       THEN Resolved(shown[int(digits)].product_id)
       ELSE None

\* What a customer may write to point at a product
ReferenceTexts ==
    {<<"t", "h", "a", "t">>,
     <<"t", "h", "a", "t", " ", "o", "n", "e">>,
     <<"i", "t">>,
     <<" ", "T", "h", "a", "t", " ", "O", "n", "e", " ">>,
     <<"I", "T">>,
     <<"a", "d", "d", " ", "i", "t">>,
     <<"t", "h", "e", " ", "s", "e", "c", "o", "n", "d", " ", "o", "n", "e">>,
     <<"i", "t", "e", "m", " ", "3">>,
     <<"b", "a", "n", "a", "n", "a">>,
     <<>>,
     <<"f", "i", "r", "s", "t">>,
     <<"t", "h", "e", " ", "t", "h", "i", "r", "d">>,
     <<"f", "i", "f", "t", "h">>,
     <<"2", "n", "d">>,
     <<"5", "t", "h">>,
     <<"4">>,
     <<"0">>,
     <<"i", "t", "e", "m", " ", "1", "2">>,
     <<"3", " ", "1">>,
     <<"f", "i", "f", "t", "h", " ", "2">>,
     <<"t", "h", "i", "r", "d", " ", "1">>,
     <<"4", "t", "h", " ", "2">>,
     <<"s", "e", "c", "o", "n", "d", ",", " ", "n", "o", "t", " ", "t", "h", "e", " ", "f", "i", "r", "s", "t">>,
     <<"t", "h", "e", " ", "3", "r", "d", " ", "o", "r", " ", "t", "h", "e", " ", "s", "e", "c", "o", "n", "d">>,
     <<"2", "1", "s", "t">>}

\* the longest list of shown products
MaxShown == 5

ShownIds == <<"A", "B", "C", "D", "E", "F", "G">>

ShownList(ids) == [i \in 1..Len(ids) |-> ShownProduct(i, ids[i], "n1", 1, ids[i])]

\* the lists a response may have shown: the first n products, or two of them
\* the other way round
ShownLists ==
    {ShownList(SubSeq(ShownIds, 1, n)) : n \in 0..MaxShown}
    \cup {ShownList(<<"B", "A">>), ShownList(<<"C", "A", "B">>)}

(* The specification of reference resolution: a session whose response      *)
(* showed one of the lists; a step resolves a text against it, or a new     *)
(* response shows another list.                                              *)

InitReference ==
    /\ db = InitialDb
    /\ \E shown \in ShownLists : _sessions = [c \in Conns |-> update_last_shown(Session, shown)]
    /\ conn = [c \in Conns |-> HandlerLocals("receive")]
    /\ last_op = Op("none", "start", NoParams, NoStepResult)

ResolveReference(c, ref) ==
    /\ last_op' = Op(c, "resolve_reference", [ref |-> ref], resolve_reference(_sessions[c], ref))
    /\ UNCHANGED <<db, _sessions, conn>>

UpdateLastShown(c, products) ==
    /\ _sessions' = [_sessions EXCEPT ![c] = update_last_shown(@, products)]
    /\ last_op' = Op(c, "update_last_shown", [products |-> products], NoStepResult)
    /\ UNCHANGED <<db, conn>>

NextReference ==
    \/ \E c \in Conns, ref \in ReferenceTexts : ResolveReference(c, ref)
    \/ \E c \in Conns, products \in ShownLists : UpdateLastShown(c, products)

ReferenceSpec == InitReference /\ [][NextReference]_vars

\* the positions named by an ordinal word of the text that are within a list of n
InRangeOrdinals(text, n) ==
    {ordinals[i].pos : i \in {j \in 1..Len(ordinals) :
                                 Occurs(ordinals[j].word, text) /\ ordinals[j].pos <= n}}

IdsOf(shown) == [i \in 1..Len(shown) |-> shown[i].product_id]

(* C26: with n products shown, resolve_reference gives the id at position 1 *)
(* for "that", "that one" and "it"; the id at position k for a text with the *)
(* ordinal word for k, k <= n (when the text has in-range ordinal words for  *)
(* several positions, the id at one of them); without an in-range ordinal   *)
(* word, the id at position d when the first number d in the text is within *)
(* 1..n; and None otherwise, and always when nothing is shown.  An in-range *)
(* ordinal word decides over a digit.  With A, B, C shown: "that one" is A, *)
(* "the second one" is B, "item 3" is C, "banana" is None.                  *)
C26_ResolveReference ==
    \A c \in Conns :
        IsStep(last_op, c, "resolve_reference") =>
            LET shown == _sessions[c].last_shown_products
                n == Len(shown)
                text == strip(lower_str(last_op.params.ref))
                result == last_op.result
                K == InRangeOrdinals(text, n)
                digits == first_digits(text)
                d == int(digits)
            IN /\ n = 0 => result = None
               /\ (n >= 1 /\ text \in default_references) =>
                      result = Resolved(shown[1].product_id)
               /\ (n >= 1 /\ text \notin default_references) =>
                      /\ \A k \in K : K = {k} => result = Resolved(shown[k].product_id)
                      /\ K # {} => \E k \in K : result = Resolved(shown[k].product_id)
                      /\ (K = {} /\ Len(digits) > 0 /\ 1 <= d /\ d <= n) =>
                             result = Resolved(shown[d].product_id)
                      /\ (K = {} /\ ~(Len(digits) > 0 /\ 1 <= d /\ d <= n)) =>
                             result = None
               /\ IdsOf(shown) = <<"A", "B", "C">> =>
                      /\ last_op.params.ref = <<"t", "h", "a", "t", " ", "o", "n", "e">> => result = Resolved("A")
                      /\ last_op.params.ref = <<"t", "h", "e", " ", "s", "e", "c", "o", "n", "d", " ", "o", "n", "e">> => result = Resolved("B")
                      /\ last_op.params.ref = <<"i", "t", "e", "m", " ", "3">> => result = Resolved("C")
                      /\ last_op.params.ref = <<"b", "a", "n", "a", "n", "a">> => result = None

\* with three products shown, "third 1" is resolved to the third: the ordinal word
\* decided, not the digit
C26_Witness ==
    /\ IsStep(last_op, "c1", "resolve_reference")
    /\ last_op.params.ref = <<"t", "h", "i", "r", "d", " ", "1">>
    /\ Len(_sessions["c1"].last_shown_products) = 3
    /\ last_op.result = Resolved(_sessions["c1"].last_shown_products[3].product_id)

-----------------------------------------------------------------------------
(* functions.py: searchProducts and searchMoreProducts, with the filters    *)
(* sku, minPrice, maxPrice, stock and limit.  kwargs is the record of the   *)
(* keyword arguments given; the filters dict is carried without its None    *)
(* entries, which is how the code compares it.  The id of a product is its  *)
(* key in the products table.  Both functions are defined in functions.py   *)
(* but commented out of FUNCTION_REGISTRY, so they are applied directly.    *)
(* functions.py uses ShownProduct at line 293 without importing it; the     *)
(* name is bound to session.ShownProduct here, so that a page is returned.  *)

default_limit == 6

\* lines 157-171: current_filters without its None entries
current_filters_clean(kwargs) ==
    [k \in DOMAIN kwargs \cup {"limit"} |->
        IF k \in DOMAIN kwargs THEN kwargs[k] ELSE default_limit]

\* Product.sku.ilike(f"%{sku}%") for SKUs of one unit
ilike(value, pattern) == lower(value) = lower(pattern)

\* lines 198-240: the filters of the WHERE clause
Matches(database, id, filters) ==
    LET p == database.products[id]
    IN /\ (Has(filters, "sku") /\ filters.sku # "") => ilike(id, filters.sku)
       /\ Has(filters, "minPrice") => p.price >= filters.minPrice
       /\ Has(filters, "maxPrice") => p.price <= filters.maxPrice
       /\ Has(filters, "stock") => IF filters.stock THEN p.stock > 0 ELSE p.stock = 0

RangeOf(s) == {s[i] : i \in 1..Len(s)}

\* A variant that leaves the shown products in the query.
exclude_nothing(rows, exclude_ids) == rows

\* lines 244-246: ~Product.id.in_(exclude_ids)
exclude(rows, exclude_ids) == rows \ RangeOf(exclude_ids)

PositionIn(s, x) == CHOOSE i \in 1..Len(s) : s[i] = x

\* order_by(Product.stock.desc()): rows of equal stock come in the order the
\* database happens to produce, given here by tiebreak (a sequence of all ids)
order_by_stock_desc(database, rows, tiebreak) ==
    LET Before(a, b) ==
            \/ database.products[a].stock > database.products[b].stock
            \/ /\ database.products[a].stock = database.products[b].stock
               /\ PositionIn(tiebreak, a) < PositionIn(tiebreak, b)
        Rank(a) == Cardinality({b \in rows : Before(b, a)}) + 1
    IN [i \in 1..Cardinality(rows) |-> CHOOSE a \in rows : Rank(a) = i]

\* .limit(limit)
limit_to(sorted, limit) == SubSeq(sorted, 1, Min(limit, Len(sorted)))

SearchContext(filters, total_count, shown_product_ids, page, has_more) ==
    [filters |-> filters, total_count |-> total_count,
     shown_product_ids |-> shown_product_ids, page |-> page, has_more |-> has_more]

\* lines 134-330
searchProducts(session, database, kwargs, tiebreak) ==
    LET current_filters == current_filters_clean(kwargs)
        context == session.search_context
        filters_match == context # None /\ context.filters = current_filters
        exclude_ids == IF filters_match THEN context.shown_product_ids ELSE <<>>
        \* lines 186-188
        reset == IF filters_match THEN session ELSE [session EXCEPT !.search_context = None]
        matching == {id \in DOMAIN database.products : Matches(database, id, current_filters)}
        rows == exclude(matching, exclude_ids)
        \* line 249: count() of the query, which by now leaves out the shown ids
        total_count == Cardinality(rows)
        products == limit_to(order_by_stock_desc(database, rows, tiebreak),
                             current_filters.limit)
        new_shown_ids == exclude_ids \o products
        has_more == Len(new_shown_ids) < total_count
        page == IF filters_match THEN context.page + 1 ELSE 1
        shown == [i \in 1..Len(products) |->
                     ShownProduct(i, products[i], database.products[products[i]].name,
                                  database.products[products[i]].price, products[i])]
    IN IF Len(products) = 0 /\ Len(exclude_ids) > 0
       THEN Return(reset, [found |-> FALSE, exhausted |-> TRUE,
                           totalShown |-> Len(exclude_ids)])
       ELSE IF Len(products) = 0
       THEN Return(reset, [found |-> FALSE, filtersUsed |-> current_filters])
       ELSE Return(update_last_shown(
                       [reset EXCEPT !.search_context =
                           SearchContext(current_filters, total_count, new_shown_ids,
                                         page, has_more)],
                       shown),
                   [found |-> TRUE,
                    count |-> Len(products),
                    total |-> total_count,
                    page |-> page,
                    hasMore |-> has_more,
                    totalShown |-> Len(new_shown_ids),
                    products |-> [i \in 1..Len(products) |->
                                     [position |-> i, productId |-> products[i],
                                      sku |-> products[i],
                                      name |-> database.products[products[i]].name,
                                      price |-> database.products[products[i]].price,
                                      stock |-> database.products[products[i]].stock]]])

\* lines 333-358
searchMoreProducts(session, database, tiebreak) ==
    IF session.search_context = None
    THEN Return(session, [error |-> TRUE, message |-> "No previous search to continue"])
    ELSE IF ~session.search_context.has_more
    THEN Return(session, [found |-> FALSE, exhausted |-> TRUE])
    ELSE searchProducts(session, database, session.search_context.filters, tiebreak)

(* The specification of the product search: one customer searching a       *)
(* catalogue of three products, page by page or with other filters, while  *)
(* the admin edits one of the products.                                     *)

CatalogueSKUs == SKUs \cup {"C"}

SearchKwargs ==
    {NoParams,
     [limit |-> 1],
     [limit |-> 2],
     [stock |-> TRUE, limit |-> 1],
     [maxPrice |-> 1, limit |-> 1],
     [stock |-> FALSE],
     [sku |-> "b"]}

Tiebreaks ==
    {t \in [1..Cardinality(CatalogueSKUs) -> CatalogueSKUs] :
        \A i, j \in DOMAIN t : t[i] = t[j] => i = j}

InitSearch ==
    /\ db = [products |-> [k \in CatalogueSKUs |->
                              IF k = "C" THEN Product("n2", 2, 1)
                              ELSE Product("n1", 1, MaxStock)],
             orders |-> <<>>]
    /\ _sessions = [c \in Conns |-> Session]
    /\ conn = [c \in Conns |-> HandlerLocals("receive")]
    /\ last_op = Op("none", "start", NoParams, NoStepResult)

SearchProducts(c, kwargs, tiebreak) ==
    LET r == searchProducts(_sessions[c], db, kwargs, tiebreak)
    IN /\ c \in DOMAIN _sessions
       /\ _sessions' = [_sessions EXCEPT ![c] = r.session]
       /\ last_op' = Op(c, "searchProducts", kwargs, r.result)
       /\ UNCHANGED <<db, conn>>

SearchMoreProducts(c, tiebreak) ==
    LET r == searchMoreProducts(_sessions[c], db, tiebreak)
    IN /\ c \in DOMAIN _sessions
       /\ _sessions' = [_sessions EXCEPT ![c] = r.session]
       /\ last_op' = Op(c, "searchMoreProducts", NoParams, r.result)
       /\ UNCHANGED <<db, conn>>

NextSearch ==
    \/ \E c \in Conns, kwargs \in SearchKwargs, tiebreak \in Tiebreaks :
           SearchProducts(c, kwargs, tiebreak)
    \/ \E c \in Conns, tiebreak \in Tiebreaks : SearchMoreProducts(c, tiebreak)
    \/ \E sku \in AdminSKUs, v \in ProductVersions, stock \in Stocks :
           AdminUpdate(sku, v, stock)

SearchSpec == InitSearch /\ [][NextSearch]_vars

-----------------------------------------------------------------------------
(* Properties of the paginated search (checked under SearchSpec) *)

ReturnedIds(result) == [i \in 1..Len(result.products) |-> result.products[i].productId]

NoDuplicates(s) == \A i, j \in 1..Len(s) : s[i] = s[j] => i = j

\* the products of the catalogue that match a filter set
Matching(database, filters) ==
    {id \in DOMAIN database.products : Matches(database, id, filters)}

\* the step of connection c ran the query of searchProducts
RanSearch(op, c, context) ==
    \/ IsStep(op, c, "searchProducts")
    \/ IsStep(op, c, "searchMoreProducts") /\ context # None /\ context.has_more

\* the filter set the step searched with
FiltersOf(op, context) ==
    IF op.name = "searchProducts" THEN current_filters_clean(op.params) ELSE context.filters

(* C27: the shown ids of a search context never hold an id twice.  A search *)
(* with the filter set of the stored context returns no id that an earlier  *)
(* page of the context returned, and adds its ids to the shown ones as the  *)
(* next page; when it finds nothing the context is kept.  A search with     *)
(* another filter set forgets the context: what it returns is page 1 and is *)
(* the head of all matching products, none excluded, and when it finds      *)
(* nothing no context is left.                                               *)
C27_NoIdOnTwoPages ==
    /\ [](\A c \in Conns :
             _sessions[c].search_context # None =>
                 NoDuplicates(_sessions[c].search_context.shown_product_ids))
    /\ [][\A c \in Conns :
             RanSearch(last_op', c, _sessions[c].search_context) =>
                 LET context == _sessions[c].search_context
                     after == _sessions'[c].search_context
                     filters == FiltersOf(last_op', context)
                     result == last_op'.result
                     same == context # None /\ context.filters = filters
                     matching == Matching(db, filters)
                 IN IF same
                    THEN IF result.found
                         THEN /\ RangeOf(ReturnedIds(result))
                                     \cap RangeOf(context.shown_product_ids) = {}
                              /\ RangeOf(ReturnedIds(result)) \subseteq matching
                              /\ after.filters = filters
                              /\ after.shown_product_ids =
                                     context.shown_product_ids \o ReturnedIds(result)
                              /\ after.page = context.page + 1
                              /\ result.page = after.page
                         ELSE after = context
                    ELSE IF result.found
                         THEN /\ after.filters = filters
                              /\ after.page = 1
                              /\ result.page = 1
                              /\ after.shown_product_ids = ReturnedIds(result)
                              /\ RangeOf(ReturnedIds(result)) \subseteq matching
                              /\ Len(ReturnedIds(result)) =
                                     Min(filters.limit, Cardinality(matching))
                              /\ \A id \in matching \ RangeOf(ReturnedIds(result)) :
                                     \A shown \in RangeOf(ReturnedIds(result)) :
                                         db.products[id].stock <= db.products[shown].stock
                         ELSE /\ after = None
                              /\ matching = {} \/ filters.limit = 0]_vars

\* the third page of a search one product a page: three ids shown, all different
C27_Witness ==
    /\ IsStep(last_op, "c1", "searchProducts")
    /\ Has(last_op.result, "found")
    /\ last_op.result.found
    /\ last_op.result.page = 3
    /\ Len(_sessions["c1"].search_context.shown_product_ids) = 3

(* C28: on every page the reported total is the number of products of the  *)
(* catalogue that match the filter set, and hasMore says whether a matching *)
(* product has not been shown yet; searchMoreProducts reports exhaustion    *)
(* only when every matching product has been shown.                         *)
C28_TotalAndHasMore ==
    [][\A c \in Conns :
          /\ RanSearch(last_op', c, _sessions[c].search_context) =>
                 LET filters == FiltersOf(last_op', _sessions[c].search_context)
                     result == last_op'.result
                     matching == Matching(db, filters)
                 IN result.found =>
                        /\ result.total = Cardinality(matching)
                        /\ result.hasMore <=>
                               (matching \ RangeOf(_sessions'[c].search_context
                                                       .shown_product_ids) # {})
          /\ (/\ IsStep(last_op', c, "searchMoreProducts")
              /\ Has(last_op'.result, "exhausted")) =>
                 Matching(db, _sessions[c].search_context.filters)
                     \subseteq RangeOf(_sessions[c].search_context.shown_product_ids)]_vars

-----------------------------------------------------------------------------
(* Two connections side by side.  Each fills its cart and its profile,      *)
(* searches, enters and completes the checkout, or goes away; the steps of  *)
(* the two connections interleave freely.                                    *)

Acne == <<"A", "c", "n", "e">>

PairReplies ==
    {ToolReply(<<ToolCallMsg(1, "updateUserProfile", [concerns |-> <<Acne>>]),
                 ToolCallMsg(2, "addToCart", [sku |-> "A", quantity |-> 1]),
                 ToolCallMsg(3, "initiateOrder", NoParams)>>),
     FinalReply(<<"o", "k">>)}

PairKwargs == {[limit |-> 1]}

PairTiebreak == <<"A", "B">>

InitPair ==
    /\ db = InitialDb
    /\ _sessions = [c \in {} |-> Session]
    /\ conn = [c \in Shoppers |-> HandlerLocals("idle")]
    /\ last_op = Op("none", "start", NoParams, NoStepResult)

NextPair ==
    \/ \E c \in Shoppers : Connect(c)
    \/ \E c \in Shoppers : ReceiveFails(c)
    \/ \E c \in Shoppers, m \in UserTexts : ReceiveText(c, m, MaxTurns)
    \/ \E c \in Shoppers, m \in OrderCheckoutTexts, alive \in {0, StaysOpen} :
           ReceiveCheckoutText(c, m, alive, MaxTurns)
    \/ \E c \in Shoppers, reply \in PairReplies : GatewayCall(c, reply, StaysOpen)
    \/ \E c \in Shoppers, kwargs \in PairKwargs :
           conn[c].pc = "receive" /\ SearchProducts(c, kwargs, PairTiebreak)

PairSpec == InitPair /\ [][NextPair]_vars

(* C25: a step taken for one connection (a turn's tool calls with their     *)
(* cart and profile changes, history appends, the checkout flag, a search,  *)
(* the creation of its session or its destruction) leaves the session of    *)
(* the other connection exactly as it was: cart, history, summary, profile, *)
(* search context, shown products and awaiting_checkout, and whether the    *)
(* registry has it at all.                                                   *)
C25_SessionsIndependent ==
    [][\A c \in Shoppers : \A d \in Shoppers \ {c} :
          last_op'.conn = c =>
              IF d \in DOMAIN _sessions
              THEN d \in DOMAIN _sessions' /\ _sessions'[d] = _sessions[d]
              ELSE d \notin DOMAIN _sessions']_vars

\* c2 has just completed its checkout and has an empty cart again, while c1 still
\* waits in its own checkout with its cart line, its profile and its search context
C25_Witness ==
    /\ IsStep(last_op, "c2", "receive_text")
    /\ last_op.result.outcome = "checkout_completed"
    /\ DOMAIN _sessions = Shoppers
    /\ DOMAIN _sessions["c2"].cart = {}
    /\ ~_sessions["c2"].awaiting_checkout
    /\ _sessions["c2"].search_context = None
    /\ _sessions["c1"].awaiting_checkout
    /\ DOMAIN _sessions["c1"].cart # {}
    /\ _sessions["c1"].user_profile.concerns # <<>>
    /\ _sessions["c1"].search_context # None

-----------------------------------------------------------------------------
(* The specification of the messages array: the handler of one connection   *)
(* with the messages local carried from pass to pass of the agentic loop.   *)

MessageReplies ==
    {ErrorReply,
     FinalReply(<<"o", "k">>),
     ToolReply(<<ToolCallMsg(7, "addToCart", [sku |-> "A", quantity |-> 1])>>),
     ToolReply(<<ToolCallMsg(3, "noSuchTool", NoParams),
                 ToolCallMsg(1, "addToCart", [sku |-> "B", quantity |-> 1]),
                 ToolCallMsg(2, "getCartState", NoParams)>>),
     ToolReply(<<ToolCallMsg(1, "getCartState", NoParams),
                 ToolCallMsg(2, "initiateOrder", NoParams),
                 ToolCallMsg(3, "addToCart", [sku |-> "B", quantity |-> 1])>>),
     ToolReply(<<ToolCallMsg(1, "addToCart", [sku |-> "A", quantity |-> 1]),
                 [id |-> 2, name |-> "addToCart", arguments |-> malformed_json]>>)}

InitMessages ==
    /\ db = InitialDb
    /\ _sessions = [c \in {} |-> Session]
    /\ conn = [c \in Conns |-> [HandlerLocals("idle") EXCEPT !.keeps_messages = TRUE]]
    /\ last_op = Op("none", "start", NoParams, NoStepResult)

NextMessages ==
    \/ \E c \in Conns : Connect(c)
    \/ \E c \in Conns, m \in UserTexts : ReceiveText(c, m, MaxTurns)
    \/ \E c \in Conns, reply \in MessageReplies : GatewayCall(c, reply, StaysOpen)

MessageSpec == InitMessages /\ [][NextMessages]_vars

IsPrefix(s, t) == Len(s) <= Len(t) /\ SubSeq(t, 1, Len(s)) = s

-----------------------------------------------------------------------------
(* Properties of the history appends of a turn (checked under HistorySpec) *)

IsSuffix(s, t) == Len(s) <= Len(t) /\ SubSeq(t, Len(t) - Len(s) + 1, Len(t)) = s

\* after is before (or, once the oldest entries were summarised, its tail) with
\* exactly first and then second appended
AppendedTwo(before, after, first, second) ==
    /\ Len(after) >= 2
    /\ LastTwo(after) = <<first, second>>
    /\ IsSuffix(SubSeq(after, 1, Len(after) - 2), before)

(* C30: a turn that ends with a final answer (a reply without tool calls,   *)
(* every send reaching the client) appends to the conversation history the  *)
(* user message and then the final assistant text, these two and in this    *)
(* order, and the handler is back at waiting for a message without another  *)
(* gateway call; a turn that enters the checkout appends the user message   *)
(* and then "Starting checkout process...".                                 *)
C30_TurnAppendsTwoEntries ==
    [][\A c \in Conns :
          (/\ IsStep(last_op', c, "gateway_call")
           /\ last_op'.params.status_code = 200
           /\ conn'[c].open) =>
              LET before == _sessions[c].conversation_history
                  after == _sessions'[c].conversation_history
                  user == [role |-> "user", content |-> Str(conn[c].user_message)]
              IN /\ Len(last_op'.params.tool_calls) = 0 =>
                        /\ AppendedTwo(before, after, user,
                                       [role |-> "assistant",
                                        content |-> Str(last_op'.params.content)])
                        /\ conn'[c].pc = "receive"
                 /\ SignalPositions(last_op'.result.dispatched) # {} =>
                        /\ AppendedTwo(before, after, user,
                                       [role |-> "assistant",
                                        content |-> Str(starting_checkout_text)])
                        /\ conn'[c].pc = "receive"]_vars

-----------------------------------------------------------------------------
(* The ceiling specification: turns whose every pass carries tool calls, so  *)
(* that the agentic loop runs into max_iterations, with calls that write the *)
(* cart and the profile and calls that write nothing.                        *)

CeilingReplies ==
    {FinalReply(<<"o", "k">>),
     ToolReply(<<ToolCallMsg(1, "updateUserProfile", [concerns |-> <<Acne>>]),
                 ToolCallMsg(2, "addToCart", [sku |-> "A", quantity |-> 1])>>),
     ToolReply(<<ToolCallMsg(1, "removeFromCart", [sku |-> "A"])>>),
     ToolReply(<<ToolCallMsg(1, "getCartState", NoParams)>>)}

NextCeiling ==
    \/ \E c \in Conns : Connect(c)
    \/ \E c \in Conns, m \in UserTexts : ReceiveText(c, m, MaxTurns)
    \/ \E c \in Conns, reply \in CeilingReplies, alive \in {0, StaysOpen} :
           GatewayCall(c, reply, alive)

CeilingSpec == Init /\ [][NextCeiling]_vars

\* the pass just taken was the last one the loop condition allows, and its batch
\* was dispatched to its end
CeilingPass(c) ==
    /\ IsStep(last_op', c, "gateway_call")
    /\ last_op'.params.status_code = 200
    /\ Len(last_op'.params.tool_calls) >= 1
    /\ conn'[c].iteration = max_iterations
    /\ SignalPositions(last_op'.result.dispatched) = {}

(* C31: the pass that runs into the iteration ceiling leaves the session as  *)
(* the dispatched tool calls of its batch left it, one after another on the  *)
(* session the earlier passes of the turn had written (nothing is rolled     *)
(* back); the abort itself writes nothing: the conversation history and the  *)
(* checkout flag are as before the pass, the data store is unchanged, and    *)
(* the turn is over, with the ceiling text and the sentinel sent when the    *)
(* client is there.  A pass below the ceiling keeps its effects as well.     *)
C31_CeilingKeepsSession ==
    [][\A c \in Conns :
          LET tool_calls == last_op'.params.tool_calls
              dispatched == last_op'.result.dispatched
          IN /\ CeilingPass(c) =>
                    /\ Len(dispatched) = Len(tool_calls)
                    /\ _sessions'[c] = EffectsOf(_sessions[c], db, tool_calls, Len(tool_calls))
                    /\ _sessions'[c].conversation_history = _sessions[c].conversation_history
                    /\ _sessions'[c].conversation_summary = _sessions[c].conversation_summary
                    /\ _sessions'[c].awaiting_checkout = _sessions[c].awaiting_checkout
                    /\ db' = db
                    /\ conn'[c].pc = "receive"
                    /\ conn'[c].open =>
                           /\ last_op'.result.outcome = "ceiling"
                           /\ last_op'.result.sent =
                                  <<TextFrame(took_too_long_text), TextFrame(end_signal)>>
             /\ (IsStep(last_op', c, "gateway_call") /\ conn'[c].pc = "loop") =>
                    _sessions'[c] = EffectsOf(_sessions[c], db, tool_calls, Len(tool_calls))]_vars

\* the turn hit the ceiling on a batch that writes nothing, and the session holds
\* the cart line and the concern that earlier passes of the turn wrote
C31_Witness ==
    /\ IsStep(last_op, "c1", "gateway_call")
    /\ last_op.result.outcome = "ceiling"
    /\ last_op.params.tool_calls[1].name = "getCartState"
    /\ conn["c1"].turns = 1
    /\ "A" \in DOMAIN _sessions["c1"].cart
    /\ _sessions["c1"].user_profile.concerns # <<>>
    /\ _sessions["c1"].conversation_history = <<>>
    /\ ~_sessions["c1"].awaiting_checkout

-----------------------------------------------------------------------------
(* The streaming specification: final answers of no, one, exactly one full, *)
(* two and three chunks, sent to a client that is there for the whole       *)
(* answer, for a part of it, or not at all.                                 *)

StreamText(n) ==
    [k \in 1..n |-> IF k % chunk_size = 1 THEN "a" ELSE IF k % 2 = 0 THEN "b" ELSE "c"]

StreamReplies ==
    {FinalReply(StreamText(0)),
     FinalReply(StreamText(1)),
     FinalReply(StreamText(chunk_size)),
     FinalReply(StreamText(chunk_size + 1)),
     FinalReply(StreamText(2 * chunk_size + 1))}

NextStream ==
    \/ \E c \in Conns : Connect(c)
    \/ \E c \in Conns : ReceiveFails(c)
    \/ \E c \in Conns, m \in UserTexts : ReceiveText(c, m, MaxTurns)
    \/ \E c \in Conns, reply \in StreamReplies, alive \in Alive : GatewayCall(c, reply, alive)

StreamSpec == Init /\ [][NextStream]_vars

\* the texts of the frames, put together in the order they were sent
RECURSIVE Concatenated(_)
Concatenated(frames) ==
    IF Len(frames) = 0 THEN <<>> ELSE Head(frames).text \o Concatenated(Tail(frames))

IsSentinel(frame) == frame = TextFrame(end_signal)

(* C32: the frames sent for a final answer are chunks of the final text, in  *)
(* the order of the text, each of chunk_size units but possibly the last,    *)
(* followed by the sentinel; sent to the end, the chunks put together are    *)
(* the final text.  When the send of a chunk fails, no later chunk and no    *)
(* sentinel is sent, the session is left as it was, and the turn is over     *)
(* with handle_message_with_streaming returning (no exception reaches the    *)
(* except clause of the connection handler).                                 *)
C32_ChunksInOrder ==
    [][\A c \in Conns :
          (/\ IsStep(last_op', c, "gateway_call")
           /\ last_op'.params.status_code = 200
           /\ Len(last_op'.params.tool_calls) = 0) =>
              LET final_text == last_op'.params.content
                  sent == last_op'.result.sent
                  chunks == SelectSeq(sent, LAMBDA f : ~IsSentinel(f))
                  count == (Len(final_text) + chunk_size - 1) \div chunk_size
              IN /\ Len(chunks) <= count
                 /\ \A i \in 1..Len(chunks) :
                        /\ chunks[i].kind = "text"
                        /\ sent[i] = chunks[i]
                        /\ Len(chunks[i].text) <= chunk_size
                        /\ i < count => Len(chunks[i].text) = chunk_size
                 /\ IsPrefix(Concatenated(chunks), final_text)
                 /\ Len(chunks) = count => Concatenated(chunks) = final_text
                 /\ conn'[c].open => sent = chunks \o <<TextFrame(end_signal)>>
                 /\ conn'[c].pc = "receive"
                 /\ last_op'.result.outcome # "exception"
                 /\ Len(chunks) < count =>
                        /\ sent = chunks
                        /\ last_op'.result.outcome = "chunk_failed"
                        /\ ~conn'[c].open
                        /\ _sessions' = _sessions]_vars

\* an answer of three chunks has been sent to the end
C32_Witness ==
    /\ IsStep(last_op, "c1", "gateway_call")
    /\ Len(last_op.params.content) = 2 * chunk_size + 1
    /\ Len(last_op.result.sent) = 4
    /\ Len(last_op.result.sent[1].text) = chunk_size
    /\ Len(last_op.result.sent[3].text) = 1
    /\ IsSentinel(last_op.result.sent[4])
    /\ last_op.result.outcome = "final"

\* the client went away after the first chunk of an answer of three
C32_WitnessAborted ==
    /\ IsStep(last_op, "c1", "gateway_call")
    /\ Len(last_op.params.content) = 2 * chunk_size + 1
    /\ Len(last_op.result.sent) = 1
    /\ last_op.result.outcome = "chunk_failed"
    /\ conn["c1"].pc = "receive"

-----------------------------------------------------------------------------
(* main.py: update_order_status under concurrent requests.  The endpoint is *)
(* a plain def, which the server runs on a worker thread with a data store  *)
(* session of its own (database.py: get_db), so two requests interleave at  *)
(* their queries and at their commit.  The queries take no lock (there is   *)
(* no with_for_update), and product.stock += quantity is computed in the    *)
(* request from the value it read and written at db.commit().  conn keeps   *)
(* the locals of each request: where it is, the order row it read and the   *)
(* stock values it is going to write.                                       *)

Requests == {"r1", "r2"}

RequestStatuses == {"rejected", "confirmed"}

RequestLocals(pc) ==
    [pc |-> pc, status |-> "none", order_id |-> 0, order |-> None, todo |-> {},
     stock |-> NoProducts, response |-> None]

Accepted200(status) ==
    [status_code |-> 200, message |-> "Status updated", new_status |-> status]

\* lines 762-773: the status is validated, the order is read and tested
QueryOrder(r, order_id, status) ==
    /\ conn[r].pc = "idle"
    /\ LET found == {i \in 1..Len(db.orders) : db.orders[i].id = order_id}
           order == db.orders[CHOOSE i \in found : TRUE]
           refusal ==
               IF status \notin valid_statuses THEN HTTPException(400, "Invalid status")
               ELSE IF found = {} THEN HTTPException(404, "Order not found")
               ELSE IF order.status = "rejected"
               THEN HTTPException(400, "Order is already rejected.")
               ELSE None
       IN IF refusal # None
          THEN /\ conn' = [conn EXCEPT ![r] = [RequestLocals("done") EXCEPT
                                                  !.status = status, !.order_id = order_id,
                                                  !.response = refusal]]
               /\ last_op' = Op(r, "update_order_status",
                                [order_id |-> order_id, status |-> status], refusal)
          ELSE /\ conn' = [conn EXCEPT ![r] =
                              [RequestLocals(IF status = "rejected" THEN "restore"
                                             ELSE "commit") EXCEPT
                                  !.status = status, !.order_id = order_id,
                                  !.order = order,
                                  !.todo = IF status = "rejected" THEN DOMAIN order.items
                                           ELSE {}]]
               /\ last_op' = Op(r, "query_order",
                                [order_id |-> order_id, status |-> status], NoParams)
    /\ UNCHANGED <<db, _sessions>>

\* lines 777-780: one round of the for loop: the product is read and its new stock
\* is computed in the request
RestoreItem(r) ==
    /\ conn[r].pc = "restore"
    /\ LET k == CHOOSE k \in conn[r].todo : TRUE
           left == conn[r].todo \ {k}
       IN /\ conn' = [conn EXCEPT
                         ![r].todo = left,
                         ![r].pc = IF left = {} THEN "commit" ELSE "restore",
                         ![r].stock =
                             IF ProductExists(db, k)
                             THEN @ @@ (k :> db.products[k].stock
                                              + conn[r].order.items[k].quantity)
                             ELSE @]
          /\ last_op' = Op(r, "restore_item", [sku |-> k], NoParams)
    /\ UNCHANGED <<db, _sessions>>

\* lines 782-785: the status is set and the changed rows are written
CommitStatus(r) ==
    /\ conn[r].pc = "commit"
    /\ LET found == {i \in 1..Len(db.orders) : db.orders[i].id = conn[r].order_id}
           i == CHOOSE i \in found : TRUE
       IN db' = [db EXCEPT
                    !.products = [k \in DOMAIN @ |->
                                     IF k \in DOMAIN conn[r].stock
                                     THEN [@[k] EXCEPT !.stock = conn[r].stock[k]]
                                     ELSE @[k]],
                    !.orders[i].status = conn[r].status]
    /\ conn' = [conn EXCEPT ![r].pc = "done", ![r].response = Accepted200(conn[r].status)]
    /\ last_op' = Op(r, "update_order_status",
                     [order_id |-> conn[r].order_id, status |-> conn[r].status],
                     Accepted200(conn[r].status))
    /\ UNCHANGED _sessions

\* the order the customer of OrderSpec places first, in a status the admin gave it
PlacedOrder(status) ==
    LET customer_info == parse_customer_info(Labelled(Digits(11)))
    IN [Order(1, customer_info.name, customer_info.phone, customer_info.address,
              ("A" :> OrderItem("A", 2, 1)) @@ ("B" :> OrderItem("B", 1, 1)))
           EXCEPT !.status = status]

InitReject ==
    /\ \E status \in {"pending", "confirmed"} :
           db = [InitialDb EXCEPT !.orders = <<PlacedOrder(status)>>]
    /\ _sessions = [c \in {} |-> Session]
    /\ conn = [r \in Requests |-> RequestLocals("idle")]
    /\ last_op = Op("none", "start", NoParams, NoStepResult)

NextReject ==
    \/ \E r \in Requests, status \in RequestStatuses : QueryOrder(r, 1, status)
    \/ \E r \in Requests : RestoreItem(r)
    \/ \E r \in Requests : CommitStatus(r)

RejectSpec == InitReject /\ [][NextReject]_vars

BothAskedToReject ==
    \A r \in Requests : conn[r].pc = "done" /\ conn[r].status = "rejected"

(* C33: when two requests that set the same order, not rejected before, to  *)
(* "rejected" have both been answered, however their steps interleaved, at  *)
(* most one of them was accepted and the stock of every ordered product is  *)
(* what it was plus the quantity of its order line, once.                   *)
C33_ConcurrentRejectRestoresOnce ==
    BothAskedToReject =>
        /\ Cardinality({r \in Requests : conn[r].response.status_code = 200}) <= 1
        /\ \A k \in DOMAIN db.orders[1].items :
               db.products[k].stock = InitialProducts[k].stock + db.orders[1].items[k].quantity

-----------------------------------------------------------------------------
(* Properties of the history over a conversation (checked under HistorySpec) *)

\* new is old with the evicted oldest entries taken off its head and the appended
\* entries put at its end
EvictedAndAppended(old, new, evicted, appended) ==
    /\ evicted <= Len(old)
    /\ appended <= Len(new)
    /\ SubSeq(new, 1, Len(new) - appended) = SubSeq(old, evicted + 1, Len(old))

(* C34: every step leaves the conversation history a contiguous suffix, in  *)
(* order, of what it was followed by the entries the step appended; when    *)
(* the appends take the length over 10, exactly the 5 oldest entries go and *)
(* one summary line for each of them (its role and the first 100 characters *)
(* of its content) is appended to the summary in their order; otherwise the *)
(* summary stays as it was.                                                 *)
C34_HistorySuffixAndSummary ==
    [][\A c \in DOMAIN _sessions \cap DOMAIN _sessions' :
          LET old == _sessions[c].conversation_history
              new == _sessions'[c].conversation_history
              summary == _sessions[c].conversation_summary
          IN \E appended \in 0..2 :
                IF Len(old) + appended <= history_limit
                THEN /\ EvictedAndAppended(old, new, 0, appended)
                     /\ _sessions'[c].conversation_summary = summary
                ELSE /\ EvictedAndAppended(old, new, summarize_count, appended)
                     /\ \A k \in 1..summarize_count : old[k].content # None
                     /\ _sessions'[c].conversation_summary =
                            Append(summary, [k \in 1..summarize_count |-> SummaryLine(old[k])])
      ]_vars

-----------------------------------------------------------------------------
(* The status specification: two placed orders and an admin who asks for    *)
(* every status, in any order.                                              *)

AnyStatusArgs == valid_statuses \cup {"cancelled"}

InitStatus ==
    /\ db = [InitialDb EXCEPT !.orders = <<PlacedOrder("pending"),
                                           [PlacedOrder("pending") EXCEPT !.id = 2]>>]
    /\ _sessions = [c \in {} |-> Session]
    /\ conn = [c \in Conns |-> HandlerLocals("idle")]
    /\ last_op = Op("none", "start", NoParams, NoStepResult)

NextStatus ==
    \E order_id \in OrderIds, status \in AnyStatusArgs : UpdateOrderStatus(order_id, status)

StatusSpec == InitStatus /\ [][NextStatus]_vars

\* models.py: pending -> confirmed -> shipped -> delivered
status_order == <<"pending", "confirmed", "shipped", "delivered">>

StatusRank(status) == CHOOSE k \in 1..Len(status_order) : status_order[k] = status

(* C35: in every step the status of every order stays where it is, moves to *)
(* a later status of pending, confirmed, shipped, delivered, or becomes     *)
(* "rejected"; it never moves to an earlier status and never leaves         *)
(* "rejected".                                                              *)
C35_StatusOnlyForward ==
    [][\A i \in 1..Len(db.orders) :
          LET old == db.orders[i].status
              new == db'.orders[i].status
          IN \/ new = "rejected"
             \/ /\ old # "rejected"
                /\ StatusRank(old) <= StatusRank(new)]_vars

-----------------------------------------------------------------------------
(* The shelf specification: the cart tools of the tool-level specification  *)
(* with nobody writing the products table, so that the catalog stock stays  *)
(* what it was at start-up.                                                 *)

NextShelf == \E c \in Conns, call \in CartToolCalls : ToolCall(c, call)

ShelfSpec == InitCart /\ [][NextShelf]_vars

(* C36: with the catalog stock unchanged, after every sequence of cart tool *)
(* calls no cart line holds more units than the catalog stock of its        *)
(* product.                                                                 *)
C36_LineWithinStock ==
    /\ db.products = InitialProducts
    /\ \A c \in DOMAIN _sessions : \A k \in DOMAIN CartOf(_sessions, c) :
           CartOf(_sessions, c)[k].quantity <= db.products[k].stock

-----------------------------------------------------------------------------
(* Properties of the checkout flag between turns (checked under Spec) *)

AtReceive(c) == Connected(_sessions, c) /\ conn[c].pc = "receive"

(* C37: whenever the handler of a connection waits for the next message and *)
(* awaiting_checkout is true, the cart of the session holds at least one    *)
(* line.                                                                    *)
C37_AwaitingImpliesCart ==
    \A c \in Conns :
        (AtReceive(c) /\ _sessions[c].awaiting_checkout) =>
            DOMAIN CartOf(_sessions, c) # {}

\* a message received during the checkout was answered with the re-prompt: the
\* handler waits again, the flag is still set and the cart still holds its line
C37_Witness ==
    /\ IsStep(last_op, "c1", "receive_text")
    /\ last_op.result.outcome = "checkout_reprompt"
    /\ AtReceive("c1")
    /\ _sessions["c1"].awaiting_checkout
    /\ DOMAIN CartOf(_sessions, "c1") = {"B"}

\* the checkout was completed: the cart is empty and the flag is cleared
C37_WitnessCompleted ==
    /\ IsStep(last_op, "c1", "receive_text")
    /\ last_op.result.outcome = "checkout_completed"
    /\ AtReceive("c1")
    /\ ~_sessions["c1"].awaiting_checkout
    /\ DOMAIN CartOf(_sessions, "c1") = {}

-----------------------------------------------------------------------------
(* Properties of the frames of one turn (checked under HistorySpec) *)

Sentinels(sent) == {k \in 1..Len(sent) : IsSentinel(sent[k])}

(* C38: the frames the handler sends for one received message hold the      *)
(* end-of-turn sentinel "__END__" at most once, on every path, the except   *)
(* clauses included; a pass of the loop that does not end the turn sends    *)
(* none.                                                                    *)
C38_OneSentinelPerMessage ==
    \A c \in Conns :
        (IsStep(last_op, c, "gateway_call") \/ IsStep(last_op, c, "receive_text")) =>
            /\ Cardinality(Sentinels(last_op.result.sent)) <= 1
            /\ conn[c].pc = "loop" => Sentinels(last_op.result.sent) = {}

-----------------------------------------------------------------------------
(* Properties of the history entries (checked under HistorySpec) *)

IsText(content) == DOMAIN content = {"str"}

(* C39: every entry of the conversation history has the role "user" or      *)
(* "assistant" and a text as its content; the entry appended after a        *)
(* completed checkout holds a text too, never None.                         *)
C39_HistoryEntriesAreText ==
    \A c \in DOMAIN _sessions :
        \A k \in 1..Len(_sessions[c].conversation_history) :
            LET entry == _sessions[c].conversation_history[k]
            IN /\ entry.role \in {"user", "assistant"}
               /\ IsText(entry.content)

-----------------------------------------------------------------------------
(* The order-life specification: the customer of the order specification    *)
(* and an admin who only moves orders through their statuses; nobody edits  *)
(* the products table.                                                      *)

NextLife ==
    \/ \E c \in Conns : Connect(c)
    \/ \E c \in Conns, m \in UserTexts : ReceiveText(c, m, MaxOrderTurns)
    \/ \E c \in Conns, m \in OrderCheckoutTexts, alive \in {0, StaysOpen} :
           ReceiveCheckoutText(c, m, alive, MaxOrderTurns)
    \/ \E c \in Conns, reply \in OrderReplies : GatewayCall(c, reply, StaysOpen)
    \/ \E order_id \in OrderIds, status \in StatusArgs : UpdateOrderStatus(order_id, status)

LifeSpec == Init /\ [][NextLife]_vars

(* C40: with one order placed and no admin edit of the products, once the   *)
(* order is rejected the catalog stock of every product is what it was      *)
(* before the order was finalized (the stock at start-up).                  *)
C40_StockConserved ==
    (Len(db.orders) = 1 /\ 1 \in Rejected(db)) =>
        \A k \in DOMAIN db.products : db.products[k].stock = InitialProducts[k].stock

====
